---- MODULE Spec2Model ----
(***************************************************************************)
(* Evidence audit and matching engine of cascade_pipeline.                 *)
(*                                                                         *)
(* Texts are TLA+ strings; a character is a string of length one.  The     *)
(* registry checker (pipeline/registry_checker.py) and the greedy          *)
(* ground-truth matchers (pipeline/ground_truth.py, cascade_bench.py) are  *)
(* modelled operation by operation.                                        *)
(***************************************************************************)
EXTENDS Integers, Sequences, FiniteSets, TLC

VARIABLES
    pdf,                \* the document behind state["pdf_path"]
    evidence_registry,  \* state["evidence_registry"], as a parsed-or-not artifact
    checker_report,     \* state["checker_report"] once the checker returned
    checker_pc,         \* "ready" | "returned" | "raised"
    left_items,         \* the matcher's claims / findings argument
    ground_truth,       \* the matcher's ground_truth argument
    threshold,          \* the matcher's threshold, as a rational [num, den]
    match_result,       \* the matcher's return value
    match_pc,           \* "idle" | "ready" | "claims" | "findings" | "bench"
    metrics,            \* compute_metrics' return value for the benchmark match
    test_documents,     \* db["test_documents"]: [filename, has_data]
    ground_truth_db,    \* db["ground_truth"]: [tc_id, sentence, is_active]
    selected_filenames, \* the benchmark's document selection
    bench_idx,          \* position of the Run Evaluation loop in the selection
    doc_locals,         \* the loop's tc_id, gt_entries and match results
    all_results,        \* the per-document results of the run
    overall,            \* overall_tp, overall_fp, overall_fn
    cascade_bench_results, \* db["cascade_bench_results"]
    cascade_bench_runs, \* db["cascade_bench_runs"]
    bench_pc,           \* "idle" | "ready" | "running" | "done" | "raised"
    review,             \* the registry review app's tc_id, ground_truth, gt_result
    review_pc,          \* "idle" | "ready" | "shown"
    pdf_path,           \* state["pdf_path"] of a graph run
    preliminary_extraction, \* state["preliminary_extraction"], the JSON text
    theme1_candidates,  \* state["theme1_candidates"], the JSON text
    theme1_findings,    \* state["theme1_findings"], the JSON text
    token_usage,        \* state["token_usage"]: the keys of the dict
    SEC_misleading_detect_artifact, \* legacy state: the detect node's JSON text
    SEC_misleading_ask_artifact,    \* legacy state: the ask node's JSON text
    SEC_misleading_artifact,        \* legacy state: the flag node's JSON text
    SEC_misleading_token_data,      \* legacy state: "" | "null" | "counted"
    active,             \* the nodes the graph has scheduled to run next
    executed,           \* the nodes that ran, in order
    model_calls,        \* the nodes that called client.messages.create, in order
    raised_node,        \* the node whose exception ended the run, or ""
    sim_args,           \* the two arguments of a sentence_similarity call
    sim_value,          \* the ratios of the call and of the call with the arguments swapped
    numerical_audit     \* source_numbers and orphan_numbers of a numerical audit

vars == <<pdf, evidence_registry, checker_report, checker_pc,
          left_items, ground_truth, threshold, match_result, match_pc, metrics,
          test_documents, ground_truth_db, selected_filenames, bench_idx, doc_locals,
          all_results, overall, cascade_bench_results, cascade_bench_runs, bench_pc,
          review, review_pc,
          pdf_path, preliminary_extraction, theme1_candidates, theme1_findings, token_usage,
          SEC_misleading_detect_artifact, SEC_misleading_ask_artifact,
          SEC_misleading_artifact, SEC_misleading_token_data,
          active, executed, model_calls, raised_node,
          sim_args, sim_value, numerical_audit>>

checker_vars == <<pdf, evidence_registry, checker_report, checker_pc>>
matcher_vars == <<left_items, ground_truth, threshold, match_result, match_pc, metrics>>
database_vars == <<test_documents, ground_truth_db>>
bench_vars == <<selected_filenames, bench_idx, doc_locals, all_results, overall,
                cascade_bench_results, cascade_bench_runs, bench_pc>>
review_vars == <<review, review_pc>>
pipeline_vars == <<pdf_path, preliminary_extraction, theme1_candidates, theme1_findings,
                   token_usage>>
legacy_vars == <<SEC_misleading_detect_artifact, SEC_misleading_ask_artifact,
                 SEC_misleading_artifact, SEC_misleading_token_data>>
run_vars == <<active, executed, model_calls, raised_node>>
graph_vars == <<pipeline_vars, legacy_vars, run_vars>>
pure_vars == <<sim_args, sim_value, numerical_audit>>

(***************************************************************************)
(* Characters and strings                                                  *)
(***************************************************************************)
Ch(s, i) == SubSeq(s, i, i)

Whitespace == {" ", "\n", "\t"}

IsSpace(c) == c \in Whitespace

Digits == {"0", "1", "2", "3", "4", "5", "6", "7", "8", "9"}

IsDigit(c) == c \in Digits

UpperLetters ==
    {"A", "B", "C", "D", "E", "F", "G", "H", "I", "J", "K", "L", "M",
     "N", "O", "P", "Q", "R", "S", "T", "U", "V", "W", "X", "Y", "Z"}

LowerLetters ==
    {"a", "b", "c", "d", "e", "f", "g", "h", "i", "j", "k", "l", "m",
     "n", "o", "p", "q", "r", "s", "t", "u", "v", "w", "x", "y", "z"}

UpperToLower ==
    [c \in UpperLetters |->
        CASE c = "A" -> "a" [] c = "B" -> "b" [] c = "C" -> "c" [] c = "D" -> "d"
          [] c = "E" -> "e" [] c = "F" -> "f" [] c = "G" -> "g" [] c = "H" -> "h"
          [] c = "I" -> "i" [] c = "J" -> "j" [] c = "K" -> "k" [] c = "L" -> "l"
          [] c = "M" -> "m" [] c = "N" -> "n" [] c = "O" -> "o" [] c = "P" -> "p"
          [] c = "Q" -> "q" [] c = "R" -> "r" [] c = "S" -> "s" [] c = "T" -> "t"
          [] c = "U" -> "u" [] c = "V" -> "v" [] c = "W" -> "w" [] c = "X" -> "x"
          [] c = "Y" -> "y" [] c = "Z" -> "z"]

LowerCh(c) == IF c \in UpperLetters THEN UpperToLower[c] ELSE c

IsLetter(c) == c \in UpperLetters \/ c \in LowerLetters

\* str.lower(), character by character; the string is halved to keep the
\* recursion shallow
RECURSIVE Lower(_)
Lower(s) ==
    IF s = "" THEN ""
    ELSE IF Len(s) = 1 THEN LowerCh(s)
    ELSE LET half == Len(s) \div 2
         IN  Lower(SubSeq(s, 1, half)) \o Lower(SubSeq(s, half + 1, Len(s)))

\* str.strip(): leading and trailing whitespace removed
RECURSIVE LStrip(_)
LStrip(s) == IF s # "" /\ IsSpace(Ch(s, 1)) THEN LStrip(Tail(s)) ELSE s

RECURSIVE RStrip(_)
RStrip(s) ==
    IF s # "" /\ IsSpace(Ch(s, Len(s))) THEN RStrip(SubSeq(s, 1, Len(s) - 1)) ELSE s

Strip(s) == RStrip(LStrip(s))

\* re.sub(r'\s+', ' ', s) on s[lo..hi]: the first character of a whitespace
\* run becomes a blank and the rest of the run is dropped
RECURSIVE CollapseRange(_, _, _)
CollapseRange(s, lo, hi) ==
    IF lo > hi THEN ""
    ELSE IF lo = hi
    THEN (IF ~IsSpace(Ch(s, lo)) THEN Ch(s, lo)
          ELSE IF lo > 1 /\ IsSpace(Ch(s, lo - 1)) THEN "" ELSE " ")
    ELSE LET mid == (lo + hi) \div 2
         IN  CollapseRange(s, lo, mid) \o CollapseRange(s, mid + 1, hi)

\* re.sub(r'\s+', ' ', s): every maximal whitespace run becomes one blank
CollapseWhitespace(s) == CollapseRange(s, 1, Len(s))

\* Python's `sub in s`
Contains(sub, s) ==
    \/ sub = ""
    \/ \E i \in 1..(Len(s) - Len(sub) + 1) : SubSeq(s, i, i + Len(sub) - 1) = sub

\* str.find(sub, start) with 1-based positions; 0 when there is none
FindFrom(sub, s, start) ==
    LET hits == {i \in start..(Len(s) - Len(sub) + 1) :
                    SubSeq(s, i, i + Len(sub) - 1) = sub}
    IN  IF hits = {} THEN 0 ELSE CHOOSE i \in hits : \A j \in hits : i <= j

\* str.split(): the maximal runs of non-whitespace characters, in order
RECURSIVE SplitWords(_)
SplitWords(s) ==
    LET t == LStrip(s)
        ends == {i \in 1..Len(t) : IsSpace(Ch(t, i))}
        stop == IF ends = {} THEN Len(t) + 1
                ELSE CHOOSE i \in ends : \A j \in ends : i <= j
    IN  IF t = "" THEN <<>>
        ELSE <<SubSeq(t, 1, stop - 1)>> \o SplitWords(SubSeq(t, stop, Len(t)))

\* " ".join(parts)
RECURSIVE JoinBlank(_)
JoinBlank(parts) ==
    IF parts = <<>> THEN ""
    ELSE IF Len(parts) = 1 THEN parts[1]
    ELSE parts[1] \o " " \o JoinBlank(Tail(parts))

SeqToSet(q) == {q[i] : i \in DOMAIN q}

\* The element of a one-element set.  {e(x) : x \in {v}} computes v once,
\* as an assignment to a local variable does.
The(S) == CHOOSE x \in S : TRUE

(***************************************************************************)
(* registry_checker.py: constants and text helpers                         *)
(***************************************************************************)
NEGATION_CRITICAL_PHRASES == <<
    [canonical |-> "neither the securities and exchange commission nor any state securities regulator has approved or disapproved",
     required_negations |-> <<"neither", "nor">>,
     description |-> "SEC/FINRA statutory disclaimer"],
    [canonical |-> "has not approved or disapproved",
     required_negations |-> <<"not">>,
     description |-> "SEC approval negation"],
    [canonical |-> "no guarantee",
     required_negations |-> <<"no">>,
     description |-> "No-guarantee language"] >>

\* _normalize that keeps runs of whitespace
LowerStripped(text) == Strip(Lower(text))

_normalize(text) == CollapseWhitespace(Strip(Lower(text)))

_phrase_in_text(phrase, text) == Contains(_normalize(phrase), _normalize(text))

(***************************************************************************)
(* registry_checker.py: _extract_numbers.  Each NUMBER_PATTERNS entry is   *)
(* matched at a position as re does: greedy pieces, and for none of the    *)
(* six patterns does giving a character back lead to a match that the      *)
(* greedy choice missed, so one greedy pass per position is exact.         *)
(***************************************************************************)
RECURSIVE SkipDigits(_, _)
SkipDigits(s, i) ==
    IF i <= Len(s) /\ IsDigit(Ch(s, i)) THEN SkipDigits(s, i + 1) ELSE i

RECURSIVE SkipSpaces(_, _)
SkipSpaces(s, i) ==
    IF i <= Len(s) /\ IsSpace(Ch(s, i)) THEN SkipSpaces(s, i + 1) ELSE i

RECURSIVE SkipDigitsCommas(_, _)
SkipDigitsCommas(s, i) ==
    IF i <= Len(s) /\ (IsDigit(Ch(s, i)) \/ Ch(s, i) = ",")
    THEN SkipDigitsCommas(s, i + 1) ELSE i

\* true when s continues at position i with lit, letters compared ignoring case
LitAt(s, i, lit) ==
    /\ i + Len(lit) - 1 <= Len(s)
    /\ Lower(SubSeq(s, i, i + Len(lit) - 1)) = lit

\* \d+\.?\d* from position i: the position after it, or 0
DecimalEnd(s, i) ==
    LET a == SkipDigits(s, i)
        b == IF LitAt(s, a, ".") THEN a + 1 ELSE a
    IN  IF a = i THEN 0 ELSE SkipDigits(s, b)

\* [A-Za-z0-9_], the \w of \b
IsWordCh(c) == IsLetter(c) \/ IsDigit(c) \/ c = "_"

\* exactly n digits from position i
DigitsAt(s, i, n) ==
    /\ i + n - 1 <= Len(s)
    /\ \A k \in i..(i + n - 1) : IsDigit(Ch(s, k))

\* \d{1,2}/ from position i: the position after the slash, or 0
DayEnd(s, i) ==
    IF DigitsAt(s, i, 2) /\ LitAt(s, i + 2, "/") THEN i + 3
    ELSE IF DigitsAt(s, i, 1) /\ LitAt(s, i + 1, "/") THEN i + 2
    ELSE 0

\* The position after the match of pattern p (1..6, in NUMBER_PATTERNS order)
\* that starts at position i, or 0 when the pattern does not match there.
PatternEnd(p, s, i) ==
    CASE p = 1 ->   \* \d+\.?\d*\s*%
            LET d == DecimalEnd(s, i)
                w == SkipSpaces(s, d)
            IN  IF d # 0 /\ LitAt(s, w, "%") THEN w + 1 ELSE 0
      [] p = 2 ->   \* \$\s*[\d,]+\.?\d*
            LET w == SkipSpaces(s, i + 1)
                g == SkipDigitsCommas(s, w)
                b == IF LitAt(s, g, ".") THEN g + 1 ELSE g
            IN  IF LitAt(s, i, "$") /\ g > w THEN SkipDigits(s, b) ELSE 0
      [] p = 3 ->   \* \d{1,2}/\d{1,2}/\d{2,4}
            LET a == DayEnd(s, i)
                b == IF a = 0 THEN 0 ELSE DayEnd(s, a)
                c == SkipDigits(s, b)
            IN  IF b # 0 /\ c - b >= 2 THEN (IF c - b > 4 THEN b + 4 ELSE c) ELSE 0
      [] p = 4 ->   \* \b\d{4}\b
            IF /\ DigitsAt(s, i, 4)
               /\ (i = 1 \/ ~IsWordCh(Ch(s, i - 1)))
               /\ (i + 4 > Len(s) \/ ~IsWordCh(Ch(s, i + 4)))
            THEN i + 4 ELSE 0
      [] p = 5 ->   \* \d+\.?\d*\s*(?:bps|bp)
            LET d == DecimalEnd(s, i)
                w == SkipSpaces(s, d)
            IN  IF d = 0 THEN 0
                ELSE IF LitAt(s, w, "bps") THEN w + 3
                ELSE IF LitAt(s, w, "bp") THEN w + 2
                ELSE 0
      [] p = 6 ->   \* \d+\.?\d*x
            LET d == DecimalEnd(s, i)
            IN  IF d # 0 /\ LitAt(s, d, "x") THEN d + 1 ELSE 0

NUMBER_PATTERNS == 1..6

\* Every pattern starts with \d, but for the second, which starts with \$
CanStart(p, c) == IF p = 2 THEN c = "$" ELSE IsDigit(c)

\* the positions of s at which a pattern can start
StartPositions(s) == {i \in 1..Len(s) : IsDigit(Ch(s, i)) \/ Ch(s, i) = "$"}

\* re.finditer(pattern, text): leftmost matches, each search resuming after
\* the previous match; the set of match.group().strip().  starts is
\* StartPositions(s): the search from i tries the positions in it from i on.
RECURSIVE FindAll(_, _, _, _)
FindAll(p, s, i, starts) ==
    LET ahead == {k \in starts : k >= i}
    IN  IF ahead = {} THEN {}
        ELSE LET k == CHOOSE x \in ahead : \A y \in ahead : x <= y
                 e == IF CanStart(p, Ch(s, k)) THEN PatternEnd(p, s, k) ELSE 0
             IN  IF e = 0 THEN FindAll(p, s, k + 1, starts)
                 ELSE {Strip(SubSeq(s, k, e - 1))} \cup FindAll(p, s, e, starts)

_extract_numbers(text) ==
    UNION {FindAll(p, text, 1, starts) :
              p \in NUMBER_PATTERNS, starts \in {StartPositions(text)}}

(***************************************************************************)
(* The registry as the checker reads it.  A claim is                       *)
(*   [has_claim_id, claim_id, page, claim_type, exact_text, support_text,  *)
(*    flags]                                                               *)
(* where has_claim_id = FALSE is a claim object without the "claim_id"     *)
(* key, exact_text = "" is a missing, null or empty "exact_text", and      *)
(* support_text = "" is a missing, null or empty "support" or one without  *)
(* a truthy "text" (the code treats each group alike).  A contradiction is *)
(* [contradiction_id, claim_ids], claim_ids = <<>> when the key is absent. *)
(***************************************************************************)
STANDARD_DISCLAIMERS == <<
    "past performance",
    "no guarantee",
    "not FDIC insured",
    "may lose value",
    "subject to change",
    "not a deposit",
    "not insured by any federal government agency",
    "prospectus",
    "read the prospectus",
    "investment return and principal value" >>

\* SplitPage on commas only
RECURSIVE SplitPageOnCommas(_)
SplitPageOnCommas(s) ==
    LET cuts == {i \in 1..Len(s) : Ch(s, i) = ","}
        cut == CHOOSE i \in cuts : \A j \in cuts : i <= j
    IN  IF cuts = {} THEN <<s>>
        ELSE <<SubSeq(s, 1, cut - 1)>> \o SplitPageOnCommas(SubSeq(s, cut + 1, Len(s)))

\* re.split(r'[-,]', s)
RECURSIVE SplitPage(_)
SplitPage(s) ==
    LET cuts == {i \in 1..Len(s) : Ch(s, i) \in {"-", ","}}
        cut == CHOOSE i \in cuts : \A j \in cuts : i <= j
    IN  IF cuts = {} THEN <<s>>
        ELSE <<SubSeq(s, 1, cut - 1)>> \o SplitPage(SubSeq(s, cut + 1, Len(s)))

\* str.isdigit() on ASCII text
IsDigitStr(s) == s # "" /\ \A i \in 1..Len(s) : IsDigit(Ch(s, i))

DigitValue(c) ==
    CASE c = "0" -> 0 [] c = "1" -> 1 [] c = "2" -> 2 [] c = "3" -> 3 [] c = "4" -> 4
      [] c = "5" -> 5 [] c = "6" -> 6 [] c = "7" -> 7 [] c = "8" -> 8 [] c = "9" -> 9

\* int(s) for a digit string
RECURSIVE StrToInt(_)
StrToInt(s) ==
    IF s = "" THEN 0
    ELSE 10 * StrToInt(SubSeq(s, 1, Len(s) - 1)) + DigitValue(Ch(s, Len(s)))

\* the claimed_pages set of _check_structural_coverage
ClaimedPages(registry) ==
    UNION {{StrToInt(Strip(part)) :
                part \in {q \in SeqToSet(SplitPage(c.page)) : IsDigitStr(Strip(q))}} :
           c \in SeqToSet(registry.claims)}

_check_structural_coverage(registry, total_pages) ==
    LET missing == SelectSeq([p \in 1..total_pages |-> p],
                             LAMBDA p : p \notin ClaimedPages(registry))
    IN  [i \in 1..Len(missing) |-> [type |-> "MISSING_PAGE", page |-> missing[i]]]

\* RegistryTextParts that leaves the support text out
RECURSIVE ExactTextParts(_)
ExactTextParts(claims) ==
    IF claims = <<>> THEN <<>>
    ELSE <<claims[1].exact_text>> \o ExactTextParts(Tail(claims))

\* registry_text_parts of the numerical and disclaimer audits: per claim its
\* exact_text, then its support text if any
RECURSIVE RegistryTextParts(_)
RegistryTextParts(claims) ==
    IF claims = <<>> THEN <<>>
    ELSE <<claims[1].exact_text>>
         \o (IF claims[1].support_text # "" THEN <<claims[1].support_text>> ELSE <<>>)
         \o RegistryTextParts(Tail(claims))

SourceNumbers(page_texts) ==
    UNION {_extract_numbers(page_texts[p]) : p \in DOMAIN page_texts}

RegistryNumbers(registry) ==
    _extract_numbers(JoinBlank(RegistryTextParts(registry.claims)))

\* source_numbers and orphan_numbers of _check_numerical_coverage
NumericalAudit(page_texts, registry) ==
    The({[source_numbers |-> source_numbers,
          orphan_numbers |-> IF source_numbers = {} THEN {}
                             ELSE source_numbers \ RegistryNumbers(registry)] :
            source_numbers \in {SourceNumbers(page_texts)}})

\* The coverage of _check_numerical_coverage, a float in the code, as the
\* exact fraction num/den.
NumericalCoverage(audit) ==
    IF audit.source_numbers = {} THEN [num |-> 1, den |-> 1]
    ELSE [num |-> Cardinality(audit.source_numbers) - Cardinality(audit.orphan_numbers),
          den |-> Cardinality(audit.source_numbers)]

\* The orders in which a Python set may be iterated
RECURSIVE Orderings(_)
Orderings(S) ==
    IF S = {} THEN {<<>>}
    ELSE UNION {{<<x>> \o rest : rest \in Orderings(S \ {x})} : x \in S}

\* The issues of _check_numerical_coverage, the orphan set iterated in `order`
_check_numerical_coverage(order) ==
    [i \in 1..Len(order) |-> [type |-> "ORPHAN_NUMBER", number |-> order[i]]]

\* _normalize of each standard disclaimer
NormalizedDisclaimers ==
    [i \in DOMAIN STANDARD_DISCLAIMERS |-> _normalize(STANDARD_DISCLAIMERS[i])]

\* _phrase_in_text(phrase, full_source) and not _phrase_in_text(phrase,
\* registry_combined) for each phrase, each of the two texts normalized once
_check_disclaimer_coverage(page_texts, registry) ==
    The({LET missed ==
                SelectSeq([i \in DOMAIN STANDARD_DISCLAIMERS |-> i],
                          LAMBDA i : /\ Contains(NormalizedDisclaimers[i], full_source)
                                     /\ ~Contains(NormalizedDisclaimers[i], registry_combined))
         IN  [k \in 1..Len(missed) |->
                [type |-> "MISSED_DISCLAIMER", phrase |-> STANDARD_DISCLAIMERS[missed[k]]]] :
            full_source \in {_normalize(JoinBlank(page_texts))},
            registry_combined \in {_normalize(JoinBlank(RegistryTextParts(registry.claims)))}})

RECURSIVE Flatten(_)
Flatten(seqs) == IF seqs = <<>> THEN <<>> ELSE seqs[1] \o Flatten(Tail(seqs))

\* DisclaimerTexts without the claim_type test: every claim's exact_text
RECURSIVE DisclaimerTextsOfAnyType(_)
DisclaimerTextsOfAnyType(claims) ==
    IF claims = <<>> THEN <<>>
    ELSE <<claims[1].exact_text>>
         \o (IF claims[1].support_text # "" THEN <<claims[1].support_text>> ELSE <<>>)
         \o DisclaimerTextsOfAnyType(Tail(claims))

\* DisclaimerTexts without the support texts
RECURSIVE DisclaimerClaimTextsOnly(_)
DisclaimerClaimTextsOnly(claims) ==
    IF claims = <<>> THEN <<>>
    ELSE (IF claims[1].claim_type = "disclosures" THEN <<claims[1].exact_text>> ELSE <<>>)
         \o DisclaimerClaimTextsOnly(Tail(claims))

\* disclaimer_texts of _check_negation_integrity: the exact_text of the
\* claims typed "disclosures", and every claim's support text
RECURSIVE DisclaimerTexts(_)
DisclaimerTexts(claims) ==
    IF claims = <<>> THEN <<>>
    ELSE (IF claims[1].claim_type = "disclosures" THEN <<claims[1].exact_text>> ELSE <<>>)
         \o (IF claims[1].support_text # "" THEN <<claims[1].support_text>> ELSE <<>>)
         \o DisclaimerTexts(Tail(claims))

\* key_fragments[:3]: the first three words of the canonical phrase that are
\* longer than three characters and are not required negations
KeyFragments(check) ==
    LET long == SelectSeq(SplitWords(check.canonical),
                          LAMBDA w : Len(w) > 3 /\ w \notin SeqToSet(check.required_negations))
    IN  SubSeq(long, 1, IF Len(long) < 3 THEN Len(long) ELSE 3)

\* re.search(".*".join(fragments), text) from position `from`, on text
\* without line breaks: the fragments occur in order, without overlap
RECURSIVE SearchFragments(_, _, _)
SearchFragments(fragments, text, from) ==
    IF fragments = <<>> THEN TRUE
    ELSE LET at == FindFrom(fragments[1], text, from)
         IN  at # 0 /\ SearchFragments(Tail(fragments), text, at + Len(fragments[1]))

\* key_fragments[:3] of each negation-critical phrase
KeyFragmentsOf ==
    [k \in DOMAIN NEGATION_CRITICAL_PHRASES |-> KeyFragments(NEGATION_CRITICAL_PHRASES[k])]

\* re.search(fragment_pattern, source_norm) for the k-th phrase
FragmentInSource(k, source_norm) == SearchFragments(KeyFragmentsOf[k], source_norm, 1)

\* NegationMissed turned round: the word is in the registry, not in the source
NegationAdded(neg_word, source_norm, registry_norm) ==
    /\ _phrase_in_text(neg_word, registry_norm)
    /\ ~_phrase_in_text(neg_word, source_norm)

\* NegationMissed without the look at the source
NegationNotCaptured(neg_word, source_norm, registry_norm) ==
    ~_phrase_in_text(neg_word, registry_norm)

\* The test under which a GARBLED_DISCLAIMER is appended for neg_word
NegationMissed(neg_word, source_norm, registry_norm) ==
    /\ ~_phrase_in_text(neg_word, registry_norm)
    /\ _phrase_in_text(neg_word, source_norm)

\* the issues of the k-th phrase
NegationIssues(k, source_norm, registry_norm) ==
    IF ~FragmentInSource(k, source_norm) THEN <<>>
    ELSE LET check == NEGATION_CRITICAL_PHRASES[k]
             missed == SelectSeq(check.required_negations,
                           LAMBDA w : NegationMissed(w, source_norm, registry_norm))
         IN  [i \in 1..Len(missed) |->
                [type |-> "GARBLED_DISCLAIMER",
                 description |-> check.description,
                 expected_negation |-> missed[i],
                 note |-> "Negation present in source but missing from registry capture"]]

_check_negation_integrity(page_texts, registry) ==
    The({Flatten([k \in 1..Len(NEGATION_CRITICAL_PHRASES) |->
                    NegationIssues(k, source_norm, registry_norm)]) :
            source_norm \in {_normalize(JoinBlank(page_texts))},
            registry_norm \in {_normalize(JoinBlank(DisclaimerTexts(registry.claims)))}})

\* c["claim_id"] of a claim without the key raises KeyError
ContradictionCheckRaises(registry) ==
    \E i \in DOMAIN registry.claims : ~registry.claims[i].has_claim_id

\* _check_contradiction_consistency without its pass over the flagged claims
InvalidReferencesOnly(registry) ==
    LET claim_ids == {c.claim_id : c \in SeqToSet(registry.claims)}
        OfContradiction(con) ==
            LET bad == SelectSeq(con.claim_ids, LAMBDA cid : cid \notin claim_ids)
            IN  [i \in 1..Len(bad) |->
                    [type |-> "INVALID_REFERENCE",
                     contradiction_id |-> con.contradiction_id,
                     missing_claim_id |-> bad[i]]]
    IN  Flatten([k \in 1..Len(registry.contradictions) |->
                    OfContradiction(registry.contradictions[k])])

_check_contradiction_consistency(registry) ==
    LET claim_ids == {c.claim_id : c \in SeqToSet(registry.claims)}
        contradiction_claim_ids ==
            UNION {SeqToSet(con.claim_ids) : con \in SeqToSet(registry.contradictions)}
        OfContradiction(con) ==
            LET bad == SelectSeq(con.claim_ids, LAMBDA cid : cid \notin claim_ids)
            IN  [i \in 1..Len(bad) |->
                    [type |-> "INVALID_REFERENCE",
                     contradiction_id |-> con.contradiction_id,
                     missing_claim_id |-> bad[i]]]
        flagged == SelectSeq(registry.claims,
                             LAMBDA c : /\ "INTERNAL_CONTRADICTION" \in c.flags
                                        /\ c.claim_id \notin contradiction_claim_ids)
    IN  Flatten([k \in 1..Len(registry.contradictions) |->
                    OfContradiction(registry.contradictions[k])])
        \o [i \in 1..Len(flagged) |->
                [type |-> "ORPHAN_FLAG",
                 claim_id |-> flagged[i].claim_id,
                 flag |-> "INTERNAL_CONTRADICTION"]]

(***************************************************************************)
(* registry_checker.py: validate_registry                                  *)
(*                                                                         *)
(* evidence_registry is [kind, has_registry_key, registry, claims,         *)
(* contradictions]: kind "invalid" is a string json.loads rejects,         *)
(* "scalar" is valid JSON that is not an object (a list, a number, null),  *)
(* "object" is a JSON object with its top-level "claims" and               *)
(* "contradictions" and, when has_registry_key, the value of its           *)
(* "registry" key.  pdf is [readable, pages]; fitz fails on an unreadable  *)
(* one.  The report's coverage_score, a float rounded to three decimals,   *)
(* is held in thousandths.                                                 *)
(***************************************************************************)
EmptyRegistry == [claims |-> <<>>, contradictions |-> <<>>]

\* The registry read beside a "registry" key, whether the key is there or not
RegistryBesideKey(registry_data) ==
    [claims |-> registry_data.claims, contradictions |-> registry_data.contradictions]

\* registry_data.get("registry", registry_data)
RegistryOf(registry_data) ==
    IF registry_data.has_registry_key THEN registry_data.registry
    ELSE [claims |-> registry_data.claims,
          contradictions |-> registry_data.contradictions]

critical_types == {"GARBLED_DISCLAIMER", "PARSE_ERROR", "PDF_EXTRACT_ERROR"}

\* coverage >= 0.7 on the exact fraction
AtLeastSeventy(coverage) == 10 * coverage.num >= 7 * coverage.den

\* Passed with every issue critical
PassedWithoutIssues(coverage, all_issues) ==
    /\ AtLeastSeventy(coverage)
    /\ all_issues = <<>>

\* passed = coverage_score >= 0.7 and not has_critical
Passed(coverage, all_issues) ==
    /\ AtLeastSeventy(coverage)
    /\ ~\E i \in DOMAIN all_issues : all_issues[i].type \in critical_types

\* round(coverage, 3) in thousandths, ties to even
Round3(coverage) ==
    LET twice == 2000 * coverage.num
        down == twice \div (2 * coverage.den)
        rest == twice % (2 * coverage.den)
    IN  IF rest > coverage.den \/ (rest = coverage.den /\ down % 2 = 1)
        THEN down + 1 ELSE down

\* report["issue_summary"]: the number of issues of each type that occurs
IssueSummary(all_issues) ==
    [t \in {all_issues[i].type : i \in DOMAIN all_issues} |->
        Cardinality({i \in DOMAIN all_issues : all_issues[i].type = t})]

ParseErrorReport ==
    [coverage_score |-> 0,
     issues |-> <<[type |-> "PARSE_ERROR", detail |-> "Registry JSON is invalid"]>>,
     passed |-> FALSE]

PdfErrorReport ==
    [coverage_score |-> 0,
     issues |-> <<[type |-> "PDF_EXTRACT_ERROR", detail |-> "cannot open document"]>>,
     passed |-> FALSE]

\* the issues of the first audit, and of the third to fifth in the code's order
OtherAudits(page_texts, registry) ==
    [structural |-> _check_structural_coverage(registry, Len(page_texts)),
     textual |-> _check_disclaimer_coverage(page_texts, registry)
                 \o _check_negation_integrity(page_texts, registry)
                 \o _check_contradiction_consistency(registry)]

\* all_issues of validate_registry, the five audits in the code's order
AllIssues(others, orphan_order) ==
    others.structural \o _check_numerical_coverage(orphan_order) \o others.textual

FullReport(page_texts, registry, audit, all_issues) ==
    LET coverage_score == NumericalCoverage(audit)
    IN  [coverage_score |-> Round3(coverage_score),
         total_pages |-> Len(page_texts),
         total_claims |-> Len(registry.claims),
         total_contradictions |-> Len(registry.contradictions),
         issues |-> all_issues,
         issue_summary |-> IssueSummary(all_issues),
         passed |-> Passed(coverage_score, all_issues)]

NoReport == [coverage_score |-> 0, issues |-> <<>>, passed |-> FALSE]

validate_registry ==
    /\ checker_pc = "ready"
    /\ \/ \* json.loads raises JSONDecodeError: the PARSE_ERROR report
          /\ evidence_registry.kind = "invalid"
          /\ checker_report' = ParseErrorReport
          /\ checker_pc' = "returned"
       \/ \* registry_data.get on a value that is no dict: AttributeError
          /\ evidence_registry.kind = "scalar"
          /\ checker_pc' = "raised"
          /\ UNCHANGED checker_report
       \/ \* _extract_pdf_text_by_page raises: the PDF_EXTRACT_ERROR report
          /\ evidence_registry.kind = "object"
          /\ ~pdf.readable
          /\ checker_report' = PdfErrorReport
          /\ checker_pc' = "returned"
       \/ \* the fifth audit reads c["claim_id"] of every claim: KeyError
          /\ evidence_registry.kind = "object"
          /\ pdf.readable
          /\ ContradictionCheckRaises(RegistryOf(evidence_registry))
          /\ checker_pc' = "raised"
          /\ UNCHANGED checker_report
       \/ /\ evidence_registry.kind = "object"
          /\ pdf.readable
          /\ ~ContradictionCheckRaises(RegistryOf(evidence_registry))
          /\ \E registry \in {RegistryOf(evidence_registry)} :
                \E audit \in {NumericalAudit(pdf.pages, registry)},
                   others \in {OtherAudits(pdf.pages, registry)} :
                    \E order \in Orderings(audit.orphan_numbers) :
                        checker_report' =
                            FullReport(pdf.pages, registry, audit, AllIssues(others, order))
          /\ checker_pc' = "returned"
    /\ UNCHANGED <<pdf, evidence_registry, matcher_vars, database_vars, bench_vars, review_vars,
                   graph_vars, pure_vars>>

(***************************************************************************)
(* ground_truth.py, cascade_bench.py: sentence_similarity.                 *)
(* difflib.SequenceMatcher(None, a, b).ratio() without junk (no isjunk,    *)
(* and autojunk only acts on a second string of 200 or more characters).   *)
(* A ratio, a float in the code, is the exact fraction [num, den].         *)
(***************************************************************************)
Min(x, y) == IF x <= y THEN x ELSE y

\* how far a[i..] and b[j..] agree, within a[..ahi] and b[..bhi] (1-based,
\* inclusive ends)
RECURSIVE CommonRun(_, _, _, _, _, _)
CommonRun(a, b, i, j, ahi, bhi) ==
    IF i <= ahi /\ j <= bhi /\ Ch(a, i) = Ch(b, j)
    THEN 1 + CommonRun(a, b, i + 1, j + 1, ahi, bhi)
    ELSE 0

\* SequenceMatcher.find_longest_match(alo, ahi, blo, bhi): the longest block
\* a[i..i+k-1] = b[j..j+k-1]; of the longest the one earliest in a, and of
\* those the one earliest in b.  k = 0 when nothing matches.
find_longest_match(a, b, alo, ahi, blo, bhi) ==
    LET blocks == {[i |-> i, j |-> j, k |-> CommonRun(a, b, i, j, ahi, bhi)] :
                        i \in alo..ahi, j \in blo..bhi}
        found == {m \in blocks : m.k > 0}
    IN  IF found = {} THEN [i |-> alo, j |-> blo, k |-> 0]
        ELSE CHOOSE m \in found : \A n \in found :
                \/ m.k > n.k
                \/ m.k = n.k /\ m.i < n.i
                \/ m.k = n.k /\ m.i = n.i /\ m.j <= n.j

\* The total size of get_matching_blocks(): the longest match, then the
\* same to its left and to its right
RECURSIVE MatchedSize(_, _, _, _, _, _)
MatchedSize(a, b, alo, ahi, blo, bhi) ==
    IF alo > ahi \/ blo > bhi THEN 0
    ELSE LET m == find_longest_match(a, b, alo, ahi, blo, bhi)
         IN  IF m.k = 0 THEN 0
             ELSE m.k + MatchedSize(a, b, alo, m.i - 1, blo, m.j - 1)
                      + MatchedSize(a, b, m.i + m.k, ahi, m.j + m.k, bhi)

\* SequenceMatcher.ratio(): 2.0 * matches / length if length else 1.0
Ratio(a, b) ==
    IF Len(a) + Len(b) = 0 THEN [num |-> 1, den |-> 1]
    ELSE [num |-> 2 * MatchedSize(a, b, 1, Len(a), 1, Len(b)), den |-> Len(a) + Len(b)]

sentence_similarity(a, b) == Ratio(Strip(Lower(a)), Strip(Lower(b)))

\* x >= y, x > y and x = y on fractions with positive denominators
FracGeq(x, y) == x.num * y.den >= y.num * x.den

FracGt(x, y) == x.num * y.den > y.num * x.den

FracEq(x, y) == x.num * y.den = y.num * x.den

(***************************************************************************)
(* The greedy matchers.  A left item is [claim_id, exact_text, sentence]   *)
(* and a ground-truth entry is [sentence]; a key the dict lacks reads as   *)
(* "" (the .get default).  Indices are the code's: 0-based.  A score entry *)
(* is [sim, left, gt]: the tuple (sim, claim_id, j) or (sim, i, j).        *)
(***************************************************************************)
CodePoints == "0123456789ABCDEFGHIJKLMNOPQRSTUVWXYZ_abcdefghijklmnopqrstuvwxyz"

CharRank(c) == FindFrom(c, CodePoints, 1)

\* a > b on Python strings: by the first differing character, else by length
RECURSIVE StrGt(_, _)
StrGt(a, b) ==
    IF a = "" THEN FALSE
    ELSE IF b = "" THEN TRUE
    ELSE IF Ch(a, 1) = Ch(b, 1) THEN StrGt(Tail(a), Tail(b))
    ELSE CharRank(Ch(a, 1)) > CharRank(Ch(b, 1))

\* the left component of a score tuple: a claim_id (str) or an index (int)
LeftGt(a, b, by_claim_id) == IF by_claim_id THEN StrGt(a, b) ELSE a > b

\* x > y on score tuples
TupleGt(x, y, by_claim_id) ==
    \/ FracGt(x.sim, y.sim)
    \/ FracEq(x.sim, y.sim) /\ LeftGt(x.left, y.left, by_claim_id)
    \/ FracEq(x.sim, y.sim) /\ x.left = y.left /\ x.gt > y.gt

\* SortReverse on the score alone: equal scores stay in loop order
RECURSIVE SortByScoreOnly(_, _)
SortByScoreOnly(scores, by_claim_id) ==
    IF scores = <<>> THEN <<>>
    ELSE LET first == CHOOSE k \in DOMAIN scores :
                        /\ \A m \in DOMAIN scores : ~FracGt(scores[m].sim, scores[k].sim)
                        /\ \A m \in 1..(k - 1) : FracGt(scores[k].sim, scores[m].sim)
         IN  <<scores[first]>>
             \o SortByScoreOnly(SubSeq(scores, 1, first - 1)
                                \o SubSeq(scores, first + 1, Len(scores)), by_claim_id)

\* scores.sort(reverse=True): descending, equal tuples in their first order
RECURSIVE SortReverse(_, _)
SortReverse(scores, by_claim_id) ==
    IF scores = <<>> THEN <<>>
    ELSE LET first == CHOOSE k \in DOMAIN scores :
                        /\ \A m \in DOMAIN scores : ~TupleGt(scores[m], scores[k], by_claim_id)
                        /\ \A m \in 1..(k - 1) : TupleGt(scores[k], scores[m], by_claim_id)
         IN  <<scores[first]>>
             \o SortReverse(SubSeq(scores, 1, first - 1)
                            \o SubSeq(scores, first + 1, Len(scores)), by_claim_id)

\* GreedyWalk that forgets the ground-truth entries it consumed
RECURSIVE GreedyWalkReusingGt(_, _, _, _, _)
GreedyWalkReusingGt(scores, thr, matched_left, matched_gt, matches) ==
    IF scores = <<>>
    THEN [matched_left |-> matched_left, matched_gt |-> matched_gt, matches |-> matches]
    ELSE LET t == scores[1]
         IN  IF t.left \notin matched_left /\ FracGeq(t.sim, thr)
             THEN GreedyWalkReusingGt(Tail(scores), thr, matched_left \cup {t.left},
                                      matched_gt \cup {t.gt},
                                      Append(matches, [left |-> t.left, gt |-> t.gt,
                                                       similarity |-> Round3(t.sim)]))
             ELSE GreedyWalkReusingGt(Tail(scores), thr, matched_left, matched_gt, matches)

\* GreedyWalk without the threshold
RECURSIVE GreedyWalkAnyScore(_, _, _, _, _)
GreedyWalkAnyScore(scores, thr, matched_left, matched_gt, matches) ==
    IF scores = <<>>
    THEN [matched_left |-> matched_left, matched_gt |-> matched_gt, matches |-> matches]
    ELSE LET t == scores[1]
         IN  IF t.left \notin matched_left /\ t.gt \notin matched_gt
             THEN GreedyWalkAnyScore(Tail(scores), thr, matched_left \cup {t.left},
                                     matched_gt \cup {t.gt},
                                     Append(matches, [left |-> t.left, gt |-> t.gt,
                                                      similarity |-> Round3(t.sim)]))
             ELSE GreedyWalkAnyScore(Tail(scores), thr, matched_left, matched_gt, matches)

\* GreedyWalk that ends at the first tuple with a consumed side
RECURSIVE GreedyWalkEndingAtConsumed(_, _, _, _, _)
GreedyWalkEndingAtConsumed(scores, thr, matched_left, matched_gt, matches) ==
    IF scores = <<>>
    THEN [matched_left |-> matched_left, matched_gt |-> matched_gt, matches |-> matches]
    ELSE LET t == scores[1]
         IN  IF t.left \in matched_left \/ t.gt \in matched_gt
             THEN [matched_left |-> matched_left, matched_gt |-> matched_gt,
                   matches |-> matches]
             ELSE IF FracGeq(t.sim, thr)
             THEN GreedyWalkEndingAtConsumed(Tail(scores), thr, matched_left \cup {t.left},
                             matched_gt \cup {t.gt},
                             Append(matches, [left |-> t.left, gt |-> t.gt,
                                              similarity |-> Round3(t.sim)]))
             ELSE GreedyWalkEndingAtConsumed(Tail(scores), thr, matched_left, matched_gt,
                                             matches)

\* The greedy walk: skip a tuple with a consumed side, accept it when its
\* score reaches the threshold
RECURSIVE GreedyWalk(_, _, _, _, _)
GreedyWalk(scores, thr, matched_left, matched_gt, matches) ==
    IF scores = <<>>
    THEN [matched_left |-> matched_left, matched_gt |-> matched_gt, matches |-> matches]
    ELSE LET t == scores[1]
         IN  IF t.left \in matched_left \/ t.gt \in matched_gt
             THEN GreedyWalk(Tail(scores), thr, matched_left, matched_gt, matches)
             ELSE IF FracGeq(t.sim, thr)
             THEN GreedyWalk(Tail(scores), thr, matched_left \cup {t.left},
                             matched_gt \cup {t.gt},
                             Append(matches, [left |-> t.left, gt |-> t.gt,
                                              similarity |-> Round3(t.sim)]))
             ELSE GreedyWalk(Tail(scores), thr, matched_left, matched_gt, matches)

\* the score matrix in loop order: left items outside, ground truth inside
ClaimScores(claims, gts) ==
    Flatten([i \in 1..Len(claims) |->
        [j \in 1..Len(gts) |->
            [sim |-> sentence_similarity(claims[i].exact_text, gts[j].sentence),
             left |-> claims[i].claim_id, gt |-> j - 1]]])

FindingScores(findings, gts) ==
    Flatten([i \in 1..Len(findings) |->
        [j \in 1..Len(gts) |->
            [sim |-> sentence_similarity(findings[i].sentence, gts[j].sentence),
             left |-> i - 1, gt |-> j - 1]]])

\* Unmatched that returns every item
UnmatchedKeepsAll(items, matched) == items

\* [gt for j, gt in enumerate(ground_truth) if j not in matched]
Unmatched(items, matched) ==
    LET keep == SelectSeq([k \in 1..Len(items) |-> k], LAMBDA k : (k - 1) \notin matched)
    IN  [n \in 1..Len(keep) |-> items[keep[n]]]

\* Coverage that calls an empty ground truth fully covered
CoverageFullWhenEmpty(matched_gt, gts) ==
    IF gts = <<>> THEN [num |-> 1, den |-> 1]
    ELSE [num |-> Cardinality(matched_gt), den |-> Len(gts)]

\* Coverage that counts the missed entries
CoverageOfMissed(matched_gt, gts) ==
    IF gts = <<>> THEN [num |-> 0, den |-> 1]
    ELSE [num |-> Len(gts) - Cardinality(matched_gt), den |-> Len(gts)]

\* len(matched_gt_indices) / len(ground_truth) if ground_truth else 0.0
Coverage(matched_gt, gts) ==
    IF gts = <<>> THEN [num |-> 0, den |-> 1]
    ELSE [num |-> Cardinality(matched_gt), den |-> Len(gts)]

\* ground_truth.py
match_claims_to_ground_truth(claims, gts, thr) ==
    LET walk == GreedyWalk(SortReverse(ClaimScores(claims, gts), TRUE), thr, {}, {}, <<>>)
    IN  [matched_claim_ids |-> walk.matched_left,
         matched_gt_indices |-> walk.matched_gt,
         matches |-> walk.matches,
         missed_gt |-> Unmatched(gts, walk.matched_gt),
         coverage |-> Coverage(walk.matched_gt, gts)]

\* ground_truth.py
match_findings_to_ground_truth(findings, gts, thr) ==
    LET walk == GreedyWalk(SortReverse(FindingScores(findings, gts), FALSE), thr, {}, {}, <<>>)
    IN  [matched_finding_indices |-> walk.matched_left,
         matched_gt_indices |-> walk.matched_gt,
         matches |-> walk.matches,
         missed_gt |-> Unmatched(gts, walk.matched_gt),
         coverage |-> Coverage(walk.matched_gt, gts)]

\* cascade_bench.py: (matched, unmatched_findings, missed_gt).  A matched
\* entry refers to its finding and its ground-truth entry, the objects of
\* the input lists; the reference is held as the object's index.
bench_match_findings_to_ground_truth(findings, gts, thr) ==
    LET walk == GreedyWalk(SortReverse(FindingScores(findings, gts), FALSE), thr, {}, {}, <<>>)
    IN  [matched |-> [n \in 1..Len(walk.matches) |->
                        [finding |-> walk.matches[n].left,
                         ground_truth |-> walk.matches[n].gt,
                         similarity |-> walk.matches[n].similarity]],
         unmatched_findings |-> Unmatched(findings, walk.matched_left),
         missed_gt |-> Unmatched(gts, walk.matched_gt)]

MatchClaims ==
    /\ match_pc = "ready"
    /\ match_result' = match_claims_to_ground_truth(left_items, ground_truth, threshold)
    /\ match_pc' = "claims"
    /\ UNCHANGED <<left_items, ground_truth, threshold, metrics, checker_vars,
                   database_vars, bench_vars, review_vars,
                   graph_vars, pure_vars>>

MatchFindings ==
    /\ match_pc = "ready"
    /\ match_result' = match_findings_to_ground_truth(left_items, ground_truth, threshold)
    /\ match_pc' = "findings"
    /\ UNCHANGED <<left_items, ground_truth, threshold, metrics, checker_vars,
                   database_vars, bench_vars, review_vars,
                   graph_vars, pure_vars>>

BenchMatchFindings ==
    /\ match_pc = "ready"
    /\ match_result' = bench_match_findings_to_ground_truth(left_items, ground_truth, threshold)
    /\ match_pc' = "bench"
    /\ UNCHANGED <<left_items, ground_truth, threshold, metrics, checker_vars,
                   database_vars, bench_vars, review_vars,
                   graph_vars, pure_vars>>

(***************************************************************************)
(* compute_metrics (cascade_bench.py).  A ratio is an exact fraction and   *)
(* the returned precision, recall and f1_score are round(x, 3), held in    *)
(* thousandths.                                                            *)
(***************************************************************************)
\* tp / (tp + other) if (tp + other) > 0 else 0.0
RatioOrZero(tp, other) ==
    IF tp + other > 0 THEN [num |-> tp, den |-> tp + other] ELSE [num |-> 0, den |-> 1]

\* 2 * precision * recall / (precision + recall) if (precision + recall) > 0 else 0.0
F1(precision, recall) ==
    LET sum == precision.num * recall.den + recall.num * precision.den
    IN  IF sum > 0 THEN [num |-> 2 * precision.num * recall.num, den |-> sum]
        ELSE [num |-> 0, den |-> 1]

\* compute_metrics with an undefined precision read as 1
compute_metrics_precision_one(matched, unmatched_findings, missed_gt, total_gt) ==
    LET tp == Len(matched)
        fp == Len(unmatched_findings)
        fn == Len(missed_gt)
        precision == IF tp + fp > 0 THEN [num |-> tp, den |-> tp + fp] ELSE [num |-> 1, den |-> 1]
        recall == RatioOrZero(tp, fn)
    IN  [true_positives |-> tp, false_positives |-> fp, false_negatives |-> fn,
         precision |-> Round3(precision), recall |-> Round3(recall),
         f1_score |-> Round3(F1(precision, recall))]

compute_metrics(matched, unmatched_findings, missed_gt, total_gt) ==
    LET tp == Len(matched)
        fp == Len(unmatched_findings)
        fn == Len(missed_gt)
        precision == RatioOrZero(tp, fp)
        recall == RatioOrZero(tp, fn)
    IN  [true_positives |-> tp, false_positives |-> fp, false_negatives |-> fn,
         precision |-> Round3(precision), recall |-> Round3(recall),
         f1_score |-> Round3(F1(precision, recall))]

NoMetrics == [true_positives |-> -1]

\* the benchmark's step after a match: metrics of the matched document
ComputeMetrics ==
    /\ match_pc = "bench"
    /\ metrics = NoMetrics
    /\ metrics' = compute_metrics(match_result.matched, match_result.unmatched_findings,
                                  match_result.missed_gt, Len(ground_truth))
    /\ UNCHANGED <<left_items, ground_truth, threshold, match_result, match_pc, checker_vars,
                   database_vars, bench_vars, review_vars,
                   graph_vars, pure_vars>>

(***************************************************************************)
(* The benchmark run (cascade_bench.py) and the registry review app        *)
(* (app_registry.py).  Both read the ground_truth collection; the          *)
(* benchmark reads test_documents and writes cascade_bench_results and     *)
(* cascade_bench_runs.                                                     *)
(***************************************************************************)
\* position of the first match of TC\s*(\d+), ignoring case, or 0
RECURSIVE TcMatchFrom(_, _)
TcMatchFrom(filename, i) ==
    IF i + 1 > Len(filename) THEN 0
    ELSE IF /\ Lower(SubSeq(filename, i, i + 1)) = "tc"
            /\ SkipDigits(filename, SkipSpaces(filename, i + 2)) > SkipSpaces(filename, i + 2)
    THEN i
    ELSE TcMatchFrom(filename, i + 1)

\* str(num) for num >= 0
RECURSIVE IntToStr(_)
IntToStr(num) ==
    LET last == SubSeq("0123456789", (num % 10) + 1, (num % 10) + 1)
    IN  IF num < 10 THEN last ELSE IntToStr(num \div 10) \o last

\* f"TC{num:02d}" for the first TC number of the filename, else ""
extract_tc_id(filename) ==
    LET at == TcMatchFrom(filename, 1)
        from == SkipSpaces(filename, at + 2)
        num == StrToInt(SubSeq(filename, from, SkipDigits(filename, from) - 1))
    IN  IF at = 0 THEN ""
        ELSE IF num < 10 THEN "TC0" \o IntToStr(num)
        ELSE "TC" \o IntToStr(num)

\* db["ground_truth"].find({"is_active": True})
ground_truth_all == SelectSeq(ground_truth_db, LAMBDA gt : gt.is_active)

\* gt_by_tc that hands every active entry to every test case
gt_of_any_tc(tc_id) == ground_truth_all

\* gt_by_tc.get(tc_id, []): the active entries of one TC Id, in collection order
gt_by_tc(tc_id) == SelectSeq(ground_truth_all, LAMBDA gt : gt.tc_id = tc_id)

\* the filenames of docs_with_gt: a TC id that has ground truth
docs_with_gt ==
    SelectSeq([k \in DOMAIN test_documents |-> test_documents[k].filename],
              LAMBDA f : extract_tc_id(f) # "" /\ gt_by_tc(extract_tc_id(f)) # <<>>)

\* doc_options[filename]: the last listed document of that name
doc_options(filename) ==
    LET k == CHOOSE k \in DOMAIN test_documents :
                /\ test_documents[k].filename = filename
                /\ \A m \in DOMAIN test_documents :
                      test_documents[m].filename = filename => m <= k
    IN  [filename |-> filename, tc_id |-> extract_tc_id(filename),
         has_data |-> test_documents[k].has_data]

\* fetch_ground_truth without the TC Id in the query
fetch_any_ground_truth(tc_id, db_fails) ==
    IF tc_id = "" \/ db_fails THEN <<>>
    ELSE SelectSeq(ground_truth_db, LAMBDA gt : gt.is_active)

\* fetch_ground_truth: the active entries of the TC Id; [] for no id or a failed query
fetch_ground_truth(tc_id, db_fails) ==
    IF tc_id = "" \/ db_fails THEN <<>>
    ELSE SelectSeq(ground_truth_db, LAMBDA gt : gt.tc_id = tc_id /\ gt.is_active)

NoLocals == [tc_id |-> ""]

NoReview == [tc_id |-> ""]

\* neither app has been opened
BenchIdle ==
    /\ test_documents = <<>>
    /\ ground_truth_db = <<>>
    /\ selected_filenames = <<>>
    /\ bench_idx = 0
    /\ doc_locals = NoLocals
    /\ all_results = <<>>
    /\ overall = [tp |-> 0, fp |-> 0, fn |-> 0]
    /\ cascade_bench_results = <<>>
    /\ cascade_bench_runs = <<>>
    /\ bench_pc = "idle"
    /\ review = NoReview
    /\ review_pc = "idle"

\* the sidebar's match threshold at its default, 0.5
match_threshold == [num |-> 1, den |-> 2]

\* json.loads of a stage artifact with its except branch: the parsed list
\* under the stage's key, [] for invalid JSON or a missing key
StageItems(artifact) == IF artifact.kind = "object" THEN artifact.items ELSE <<>>

\* the artifact parses to something that is not an object: .get raises
NotADict(artifact) == artifact.kind = "scalar"

\* one stage of a document's result: the match against gt_entries
StageMatch(findings, gt_entries) ==
    bench_match_findings_to_ground_truth(findings, gt_entries, match_threshold)

StageMetrics(m, gt_entries) ==
    compute_metrics(m.matched, m.unmatched_findings, m.missed_gt, Len(gt_entries))

\* the "matched" list of a stage in doc_result
MatchedSummary(m, findings) ==
    [n \in DOMAIN m.matched |->
        [similarity |-> m.matched[n].similarity,
         sentence |-> findings[m.matched[n].finding + 1].sentence]]

SentencesOf(items) == [n \in DOMAIN items |-> items[n].sentence]

CountDisposition(results, d) == Cardinality({n \in DOMAIN results : results[n].disposition = d})

\* the loop's local values once both stages are matched (lines 268-283)
LocalsOf(tc_id, gt_entries, detect, flag) ==
    [tc_id |-> tc_id, gt_entries |-> gt_entries,
     detect_matched |-> detect.matched, detect_missed |-> detect.missed_gt,
     flag_matched |-> flag.matched, flag_missed |-> flag.missed_gt]

\* doc_result (lines 289-323), without run id, model, timestamp and raw artifacts
DocResult(doc_info, outcome, gt_entries, detect, flag) ==
    [tc_id |-> doc_info.tc_id,
     filename |-> doc_info.filename,
     n_ground_truth |-> Len(gt_entries),
     detect |-> [n_candidates |-> Len(StageItems(outcome.detect)),
                 metrics |-> StageMetrics(detect, gt_entries),
                 matched |-> MatchedSummary(detect, StageItems(outcome.detect)),
                 missed |-> SentencesOf(detect.missed_gt)],
     ask |-> [n_flagged |-> CountDisposition(StageItems(outcome.ask), "FLAG"),
              n_cleared |-> CountDisposition(StageItems(outcome.ask), "CLEAR")],
     flag |-> [n_findings |-> Len(StageItems(outcome.flag)),
               metrics |-> StageMetrics(flag, gt_entries),
               matched |-> MatchedSummary(flag, StageItems(outcome.flag)),
               missed |-> SentencesOf(flag.missed_gt),
               extra |-> SentencesOf(flag.unmatched_findings)]]

\* overall_tp += ..., overall_fp += ..., overall_fn += ... (lines 285-287)
AddOverall(totals, flag_metrics) ==
    [tp |-> totals.tp + flag_metrics.true_positives,
     fp |-> totals.fp + flag_metrics.false_positives,
     fn |-> totals.fn + flag_metrics.false_negatives]

\* RunSummary that counts every document the loop visited
RunSummaryCountingVisited(results, totals) ==
    LET precision == RatioOrZero(totals.tp, totals.fp)
        recall == RatioOrZero(totals.tp, totals.fn)
    IN  [n_documents |-> bench_idx - 1,
         match_threshold |-> match_threshold,
         overall_metrics |->
            [true_positives |-> totals.tp,
             false_positives |-> totals.fp,
             false_negatives |-> totals.fn,
             precision |-> Round3(precision),
             recall |-> Round3(recall),
             f1_score |-> Round3(F1(precision, recall))]]

\* run_summary (lines 333-350), without run id, model and timestamp
RunSummary(results, totals) ==
    LET precision == RatioOrZero(totals.tp, totals.fp)
        recall == RatioOrZero(totals.tp, totals.fn)
    IN  [n_documents |-> Len(results),
         match_threshold |-> match_threshold,
         overall_metrics |->
            [true_positives |-> totals.tp,
             false_positives |-> totals.fp,
             false_negatives |-> totals.fn,
             precision |-> Round3(precision),
             recall |-> Round3(recall),
             f1_score |-> Round3(F1(precision, recall))]]

\* what pipeline.invoke can hand back for one document: an exception, or
\* three artifacts, each invalid JSON, JSON that is not an object, or an
\* object holding the stage's list
InvalidJson == [kind |-> "invalid", items |-> <<>>]

ScalarJson == [kind |-> "scalar", items |-> <<>>]

ObjectJson(items) == [kind |-> "object", items |-> items]

Finding(sentence) == [sentence |-> sentence]

DetectArtifacts == {InvalidJson, ScalarJson, ObjectJson(<<Finding("Ab "), Finding("bc")>>)}

AskArtifacts == {ScalarJson, ObjectJson(<<[disposition |-> "FLAG"], [disposition |-> "CLEAR"]>>)}

FlagArtifacts ==
    {InvalidJson, ScalarJson, ObjectJson(<<Finding("Ab ")>>),
     ObjectJson(<<Finding("bc"), Finding("Ab")>>)}

PipelineOutcomes ==
    {[kind |-> "exception", detect |-> InvalidJson, ask |-> InvalidJson, flag |-> InvalidJson]}
    \cup {[kind |-> "result", detect |-> d, ask |-> a, flag |-> f] :
            d \in DetectArtifacts, a \in AskArtifacts, f \in FlagArtifacts}

\* the "Run Evaluation" button (lines 199-207)
StartRun ==
    /\ bench_pc = "ready"
    /\ selected_filenames # <<>>
    /\ bench_idx' = 1
    /\ all_results' = <<>>
    /\ overall' = [tp |-> 0, fp |-> 0, fn |-> 0]
    /\ bench_pc' = "running"
    /\ UNCHANGED <<selected_filenames, doc_locals, cascade_bench_results, cascade_bench_runs,
                   database_vars, checker_vars, matcher_vars, review_vars,
                   graph_vars, pure_vars>>

\* one iteration of the loop over the selected documents (lines 209-328)
EvaluateDocument ==
    /\ bench_pc = "running"
    /\ bench_idx <= Len(selected_filenames)
    /\ \E doc_info \in {doc_options(selected_filenames[bench_idx])} :
        \/ \* no PDF data: skipped
           /\ ~doc_info.has_data
           /\ bench_idx' = bench_idx + 1
           /\ UNCHANGED <<doc_locals, all_results, overall, cascade_bench_results, bench_pc>>
        \/ \* pipeline.invoke raised: skipped
           /\ doc_info.has_data
           /\ \E outcome \in PipelineOutcomes : outcome.kind = "exception"
           /\ bench_idx' = bench_idx + 1
           /\ UNCHANGED <<doc_locals, all_results, overall, cascade_bench_results, bench_pc>>
        \/ \* detect or flag artifact is not an object: .get raises before the match is stored
           /\ doc_info.has_data
           /\ \E outcome \in PipelineOutcomes :
                 /\ outcome.kind = "result"
                 /\ NotADict(outcome.detect) \/ NotADict(outcome.flag)
           /\ bench_pc' = "raised"
           /\ UNCHANGED <<bench_idx, doc_locals, all_results, overall, cascade_bench_results>>
        \/ \* ask artifact is not an object: .get raises while doc_result is built
           /\ doc_info.has_data
           /\ \E outcome \in PipelineOutcomes,
                 gt_entries \in {gt_by_tc(doc_info.tc_id)} :
                 /\ outcome.kind = "result"
                 /\ ~NotADict(outcome.detect) /\ ~NotADict(outcome.flag)
                 /\ NotADict(outcome.ask)
                 /\ \E detect \in {StageMatch(StageItems(outcome.detect), gt_entries)},
                       flag \in {StageMatch(StageItems(outcome.flag), gt_entries)} :
                       /\ doc_locals' = LocalsOf(doc_info.tc_id, gt_entries, detect, flag)
                       /\ overall' = AddOverall(overall, StageMetrics(flag, gt_entries))
           /\ bench_pc' = "raised"
           /\ UNCHANGED <<bench_idx, all_results, cascade_bench_results>>
        \/ \* the document completes: result appended and stored
           /\ doc_info.has_data
           /\ \E outcome \in PipelineOutcomes,
                 gt_entries \in {gt_by_tc(doc_info.tc_id)} :
                 /\ outcome.kind = "result"
                 /\ ~NotADict(outcome.detect) /\ ~NotADict(outcome.flag)
                 /\ ~NotADict(outcome.ask)
                 /\ \E detect \in {StageMatch(StageItems(outcome.detect), gt_entries)},
                       flag \in {StageMatch(StageItems(outcome.flag), gt_entries)} :
                       /\ doc_locals' = LocalsOf(doc_info.tc_id, gt_entries, detect, flag)
                       /\ overall' = AddOverall(overall, StageMetrics(flag, gt_entries))
                       /\ \E doc_result \in {DocResult(doc_info, outcome, gt_entries, detect, flag)} :
                             /\ all_results' = Append(all_results, doc_result)
                             /\ cascade_bench_results' = Append(cascade_bench_results, doc_result)
           /\ bench_idx' = bench_idx + 1
           /\ UNCHANGED bench_pc
    /\ UNCHANGED <<selected_filenames, cascade_bench_runs,
                   database_vars, checker_vars, matcher_vars, review_vars,
                   graph_vars, pure_vars>>

\* after the loop: the run summary is stored (lines 332-352)
StoreRunSummary ==
    /\ bench_pc = "running"
    /\ bench_idx > Len(selected_filenames)
    /\ cascade_bench_runs' = Append(cascade_bench_runs, RunSummary(all_results, overall))
    /\ bench_pc' = "done"
    /\ UNCHANGED <<selected_filenames, bench_idx, doc_locals, all_results, overall,
                   cascade_bench_results, database_vars, checker_vars, matcher_vars, review_vars,
                   graph_vars, pure_vars>>

\* claims the registry pipeline can hand to the review app
ReviewClaims ==
    {<<>>,
     <<[claim_id |-> "C1", exact_text |-> "Ab "]>>,
     <<[claim_id |-> "C1", exact_text |-> "bc"], [claim_id |-> "C2", exact_text |-> "Ab"]>>}

UploadNames == {"TC1.pdf", "tc 2 final.pdf", "report.pdf"}

\* match_claims_to_ground_truth's default threshold, 0.45
default_threshold == [num |-> 9, den |-> 20]

NoGtResult == [matches |-> <<>>]

\* the registry review app: "Extract Evidence Registry" on an uploaded file
\* (app_registry.py lines 153-154 and 221)
ReviewUpload ==
    /\ review_pc = "ready"
    /\ \E filename \in UploadNames, claims \in ReviewClaims, db_fails \in BOOLEAN :
        \E gts \in {fetch_ground_truth(extract_tc_id(filename), db_fails)} :
            review' = [filename |-> filename,
                       tc_id |-> extract_tc_id(filename),
                       ground_truth |-> gts,
                       gt_result |-> IF gts # <<>>
                                     THEN match_claims_to_ground_truth(claims, gts, default_threshold)
                                     ELSE NoGtResult]
    /\ review_pc' = "shown"
    /\ UNCHANGED <<database_vars, bench_vars, checker_vars, matcher_vars,
                   graph_vars, pure_vars>>

(***************************************************************************)
(* Runs of single functions.                                               *)
(* sentence_similarity called with a pair of strings and with the pair     *)
(* swapped; and the numerical audit and the report of validate_registry    *)
(* (registry_checker.py 107-136, 287-320) on a document of many distinct   *)
(* percentages, where the audit's two sets are held as found and the       *)
(* other four audits find nothing.                                         *)
(***************************************************************************)
NoSimilarity == [ab |-> [num |-> 0, den |-> 0], ba |-> [num |-> 0, den |-> 0]]

NoAudit == [source_numbers |-> {}, orphan_numbers |-> {}]

\* no graph has been invoked
GraphIdle ==
    /\ pdf_path = ""
    /\ preliminary_extraction = ""
    /\ theme1_candidates = ""
    /\ theme1_findings = ""
    /\ token_usage = {}
    /\ SEC_misleading_detect_artifact = ""
    /\ SEC_misleading_ask_artifact = ""
    /\ SEC_misleading_artifact = ""
    /\ SEC_misleading_token_data = ""
    /\ active = {}
    /\ executed = <<>>
    /\ model_calls = <<>>
    /\ raised_node = ""

\* no function is run on its own
PureIdle ==
    /\ sim_args = <<>>
    /\ sim_value = NoSimilarity
    /\ numerical_audit = NoAudit

\* sentence_similarity(a, b) and sentence_similarity(b, a)
CallSimilarity ==
    /\ sim_args # <<>>
    /\ sim_value = NoSimilarity
    /\ sim_value' = [ab |-> sentence_similarity(sim_args[1], sim_args[2]),
                     ba |-> sentence_similarity(sim_args[2], sim_args[1])]
    /\ UNCHANGED <<sim_args, numerical_audit, checker_vars, matcher_vars, database_vars,
                   bench_vars, review_vars, graph_vars>>

\* the i-th percentage of the document
NumberToken(i) == IntToStr(i) \o "%"

NumberTokens(lo, hi) == [i \in 1..(hi - lo + 1) |-> NumberToken(lo + i - 1)]

\* "lo% ... hi%", the percentages joined by blanks
RECURSIVE NumbersText(_, _)
NumbersText(lo, hi) ==
    IF lo > hi THEN ""
    ELSE IF lo = hi THEN NumberToken(lo)
    ELSE LET mid == (lo + hi) \div 2
         IN  NumbersText(lo, mid) \o " " \o NumbersText(mid + 1, hi)

\* a one-page document that reads "1% 2% ... n%"
NumbersDoc(n) == [readable |-> TRUE, pages |-> <<NumbersText(1, n)>>]

\* a registry whose only claim, of page "1", quotes the first `held` percentages
NumbersRegistry(held) ==
    [kind |-> "object", has_registry_key |-> TRUE,
     registry |-> [claims |-> <<[has_claim_id |-> TRUE, claim_id |-> "C1", page |-> "1",
                                 claim_type |-> "performance",
                                 exact_text |-> NumbersText(1, held),
                                 support_text |-> "", flags |-> {}]>>,
                   contradictions |-> <<>>],
     claims |-> <<>>, contradictions |-> <<>>]

\* source_numbers and orphan_numbers for that document and registry
NumbersAudit(n, held) ==
    [source_numbers |-> {NumberToken(i) : i \in 1..n},
     orphan_numbers |-> {NumberToken(i) : i \in (held + 1)..n}]

\* validate_registry from the end of the numerical audit: the ORPHAN_NUMBER
\* issues, in the order of the document, are the only issues; then passed
\* and the report
BuildReport ==
    /\ checker_pc = "audited"
    /\ \E held \in {Cardinality(numerical_audit.source_numbers)
                        - Cardinality(numerical_audit.orphan_numbers)} :
          checker_report' =
              FullReport(pdf.pages, RegistryOf(evidence_registry), numerical_audit,
                  _check_numerical_coverage(
                      NumberTokens(held + 1, Cardinality(numerical_audit.source_numbers))))
    /\ checker_pc' = "returned"
    /\ UNCHANGED <<pdf, evidence_registry, numerical_audit, sim_args, sim_value,
                   matcher_vars, database_vars, bench_vars, review_vars, graph_vars>>

(***************************************************************************)
(* Inputs of the checker.  A text is at most a bounded number of chunks    *)
(* joined by blanks.  Each family of inputs varies what one audit reads    *)
(* and keeps the rest of the registry plain.                               *)
(***************************************************************************)
MaxPages == 2
MaxChunks == 2
MaxClaims == 2
MaxContradictions == 1
MaxRefs == 2

SeqsUpTo(S, n) == UNION {[1..k -> S] : k \in 0..n}

ChunkTexts(chunks, n) == {JoinBlank(q) : q \in SeqsUpTo(chunks, n)}

Claim(id, page, type, text, support, flags) ==
    [has_claim_id |-> TRUE, claim_id |-> id, page |-> page, claim_type |-> type,
     exact_text |-> text, support_text |-> support, flags |-> flags]

\* a claim object without "claim_id", "page", "support" and "flags"
BareClaim(text) ==
    [has_claim_id |-> FALSE, claim_id |-> "", page |-> "", claim_type |-> "",
     exact_text |-> text, support_text |-> "", flags |-> {}]

Wrapped(registry) ==
    [kind |-> "object", has_registry_key |-> TRUE, registry |-> registry,
     claims |-> <<>>, contradictions |-> <<>>]

Unwrapped(registry) ==
    [kind |-> "object", has_registry_key |-> FALSE, registry |-> EmptyRegistry,
     claims |-> registry.claims, contradictions |-> registry.contradictions]

NotAnObject(kind) ==
    [kind |-> kind, has_registry_key |-> FALSE, registry |-> EmptyRegistry,
     claims |-> <<>>, contradictions |-> <<>>]

Artifacts(registries) ==
    {Wrapped(r) : r \in registries} \cup {Unwrapped(r) : r \in registries}

Readable(pages) == [readable |-> TRUE, pages |-> pages]

Unreadable == [readable |-> FALSE, pages |-> <<>>]

\* Negation family: statutory disclaimers, whole or garbled, in the source
\* and in one claim.
NegationChunks ==
    {"Neither", "nor any", "has NOT", "cannot",
     "the Securities and  Exchange\nCommission", "approved or disapproved"}

NegationDocs == {Readable(<<t>>) : t \in ChunkTexts(NegationChunks, MaxChunks)}

NegationRegistries ==
    {[claims |-> <<Claim("C1", "1", type, text, support, {})>>, contradictions |-> <<>>] :
        type \in {"disclosures", "performance"},
        text \in {"", "Neither", "has NOT", "cannot", "approved or disapproved"},
        support \in {"", "has not approved"}}

\* Number family: numeric tokens and boilerplate phrases.
NumberChunks ==
    {"Returns were 5%.", "$1,000 fee", "by 12/31/24", "50 bps in 2024", "1.5X",
     "Past  performance is no guarantee"}

NumberDocs == {Readable(<<t>>) : t \in ChunkTexts(NumberChunks, MaxChunks)}

NumberRegistries ==
    {[claims |-> <<Claim("C1", "1", "performance", text, support, {})>>,
      contradictions |-> <<>>] :
        text \in ChunkTexts(NumberChunks, 1),
        support \in {"", "past performance in 2024"}}

\* Structure family: page fields against the page count.
PageFields == {"1", "2", "1-3", " 2 ,3", "p1"}

StructureDocs ==
    {Readable(pages) :
        pages \in {[i \in 1..n |-> IF i = 1 THEN "Returns were 5%." ELSE "See footnote 1."] :
                    n \in 1..(MaxPages + 1)}}

StructureRegistries ==
    {[claims |-> [i \in DOMAIN pages |->
                    Claim(IF i = 1 THEN "C1" ELSE "C2", pages[i], "performance",
                          "Returns were 5%.", "", {})],
      contradictions |-> <<>>] : pages \in SeqsUpTo(PageFields, MaxClaims)}

\* Reference family: claim ids, flags and contradictions.
ReferenceClaims ==
    {Claim("C1", "1", "performance", "Returns were 5%.", "", {}),
     Claim("C2", "2", "performance", "Returns were 5%.", "", {"INTERNAL_CONTRADICTION"}),
     BareClaim("Returns were 5%.")}

\* the claim_ids of a contradiction: the flagged claim's C2 before C9, the
\* id of no claim, each as often as the bound allows
ReferenceIds ==
    {q \in SeqsUpTo({"C2", "C9"}, MaxRefs) :
        \A i \in 1..(Len(q) - 1) : q[i] = "C2" \/ q[i + 1] = "C9"}

ReferenceContradictions ==
    {[contradiction_id |-> "X1", claim_ids |-> ids] : ids \in ReferenceIds}

ReferenceRegistries ==
    {[claims |-> cs, contradictions |-> xs] :
        cs \in SeqsUpTo(ReferenceClaims, MaxClaims),
        xs \in SeqsUpTo(ReferenceContradictions, MaxContradictions)}

PlainDoc == Readable(<<"Returns were 5%.", "See footnote 1.">>)

InitChecker ==
    /\ \/ /\ pdf \in NegationDocs
          /\ evidence_registry \in {Wrapped(r) : r \in NegationRegistries}
       \/ /\ pdf \in NumberDocs
          /\ evidence_registry \in {Wrapped(r) : r \in NumberRegistries}
       \/ /\ pdf \in StructureDocs
          /\ evidence_registry \in Artifacts(StructureRegistries)
       \/ /\ pdf = PlainDoc
          /\ evidence_registry \in Artifacts(ReferenceRegistries)
       \/ /\ pdf \in {PlainDoc, Unreadable}
          /\ evidence_registry \in
                {NotAnObject("invalid"), NotAnObject("scalar"), Wrapped(EmptyRegistry)}
    /\ checker_report = NoReport
    /\ checker_pc = "ready"
    /\ left_items = <<>>
    /\ ground_truth = <<>>
    /\ threshold = [num |-> 0, den |-> 1]
    /\ match_result = [matches |-> <<>>]
    /\ metrics = NoMetrics
    /\ BenchIdle
    /\ match_pc = "idle"
    /\ GraphIdle
    /\ PureIdle

NextChecker == validate_registry

SpecChecker == InitChecker /\ [][NextChecker]_vars

(***************************************************************************)
(* Inputs of the matchers                                                  *)
(***************************************************************************)
MaxLeft == 2
MaxGroundTruth == 2

Sentences == {"", "Ab ", "bc"}

ClaimItems ==
    {[claim_id |-> id, exact_text |-> t, sentence |-> ""] :
        id \in {"C1", "C2"}, t \in Sentences}

FindingItems == {[claim_id |-> "", exact_text |-> "", sentence |-> t] : t \in Sentences}

GroundTruthEntries == {[sentence |-> t] : t \in Sentences}

\* the defaults of ground_truth.py and cascade_bench.py, and one no ratio reaches
Thresholds == {[num |-> 9, den |-> 20], [num |-> 1, den |-> 2], [num |-> 11, den |-> 10]}

InitMatcher ==
    /\ left_items \in SeqsUpTo(ClaimItems, MaxLeft) \cup SeqsUpTo(FindingItems, MaxLeft)
    /\ ground_truth \in SeqsUpTo(GroundTruthEntries, MaxGroundTruth)
    /\ threshold \in Thresholds
    /\ match_result = [matches |-> <<>>]
    /\ metrics = NoMetrics
    /\ BenchIdle
    /\ match_pc = "ready"
    /\ pdf = Unreadable
    /\ evidence_registry = NotAnObject("invalid")
    /\ checker_report = NoReport
    /\ checker_pc = "idle"
    /\ GraphIdle
    /\ PureIdle

NextMatcher == MatchClaims \/ MatchFindings \/ BenchMatchFindings \/ ComputeMetrics

SpecMatcher == InitMatcher /\ [][NextMatcher]_vars

(***************************************************************************)
(* Inputs of the benchmark run and of the review app                       *)
(***************************************************************************)
MaxDocs == 3
MaxGtDb == 2

\* the test_documents collection holds the first documents of this list
DocPool ==
    <<[filename |-> "TC1.pdf", has_data |-> TRUE],
      [filename |-> "upd_tc 02_2.pdf", has_data |-> TRUE],
      [filename |-> "TC01_b.pdf", has_data |-> FALSE],
      [filename |-> "notes.pdf", has_data |-> TRUE],
      [filename |-> "TC3.pdf", has_data |-> TRUE]>>

GtPool ==
    {[tc_id |-> "TC01", sentence |-> "Ab ", is_active |-> TRUE],
     [tc_id |-> "TC01", sentence |-> "bc", is_active |-> TRUE],
     [tc_id |-> "TC02", sentence |-> "bc", is_active |-> TRUE],
     [tc_id |-> "TC02", sentence |-> "Ab ", is_active |-> FALSE]}

\* the sub-lists of a list, in its order
RECURSIVE SubLists(_)
SubLists(q) ==
    IF q = <<>> THEN {<<>>}
    ELSE LET rest == SubLists(Tail(q))
         IN  rest \cup {<<Head(q)>> \o x : x \in rest}

InitBench ==
    /\ test_documents \in {SubSeq(DocPool, 1, n) : n \in 0..Min(MaxDocs, Len(DocPool))}
    /\ ground_truth_db \in SeqsUpTo(GtPool, MaxGtDb)
    /\ \/ /\ bench_pc = "ready"
          /\ review_pc = "idle"
          /\ selected_filenames \in SubLists(docs_with_gt)
       \/ /\ bench_pc = "idle"
          /\ review_pc = "ready"
          /\ selected_filenames = <<>>
    /\ bench_idx = 0
    /\ doc_locals = NoLocals
    /\ all_results = <<>>
    /\ overall = [tp |-> 0, fp |-> 0, fn |-> 0]
    /\ cascade_bench_results = <<>>
    /\ cascade_bench_runs = <<>>
    /\ review = NoReview
    /\ left_items = <<>>
    /\ ground_truth = <<>>
    /\ threshold = match_threshold
    /\ match_result = [matches |-> <<>>]
    /\ metrics = NoMetrics
    /\ match_pc = "idle"
    /\ pdf = Unreadable
    /\ evidence_registry = NotAnObject("invalid")
    /\ checker_report = NoReport
    /\ checker_pc = "idle"
    /\ GraphIdle
    /\ PureIdle

NextBench == StartRun \/ EvaluateDocument \/ StoreRunSummary \/ ReviewUpload

SpecBench == InitBench /\ [][NextBench]_vars

(***************************************************************************)
(* Inputs of the single-function runs                                      *)
(***************************************************************************)
MaxSourceNumbers == 203

\* the sizes of the documents: some 200 distinct numbers, the fewest with
\* which a coverage below 0.7 is within 0.0005 of it
SourceNumberCounts == (MaxSourceNumbers - 9)..MaxSourceNumbers

\* strings with a common block in different places, with case and margins
SimilarityStrings == {"", " ", "Ab ", " ab", "bc", "tide", "diet", "abcd", "bcda", "A b"}

InitFunctions ==
    /\ \/ /\ sim_args \in SimilarityStrings \X SimilarityStrings
          /\ numerical_audit = NoAudit
          /\ pdf = Unreadable
          /\ evidence_registry = NotAnObject("invalid")
          /\ checker_pc = "idle"
       \/ /\ sim_args = <<>>
          /\ \E n \in SourceNumberCounts : \E held \in 0..n :
                /\ pdf = NumbersDoc(n)
                /\ evidence_registry = NumbersRegistry(held)
                /\ numerical_audit = NumbersAudit(n, held)
          /\ checker_pc = "audited"
    /\ sim_value = NoSimilarity
    /\ checker_report = NoReport
    /\ left_items = <<>>
    /\ ground_truth = <<>>
    /\ threshold = [num |-> 0, den |-> 1]
    /\ match_result = [matches |-> <<>>]
    /\ metrics = NoMetrics
    /\ match_pc = "idle"
    /\ BenchIdle
    /\ GraphIdle

NextFunctions == CallSimilarity \/ BuildReport

SpecFunctions == InitFunctions /\ [][NextFunctions]_vars

(***************************************************************************)
(* The graphs: pipeline/runner.py (phase0_preliminary -> phase1_evidence   *)
(* -> registry_checker -> phase2_detect -> phase3_validate) and the legacy *)
(* graph of main.py, app.py and cascade_bench.py (sec_misleading_detect -> *)
(* sec_misleading_ask -> sec_misleading_flag).                             *)
(*                                                                         *)
(* An artifact is the JSON text a node writes.  json.loads is the table    *)
(* JsonValues over the texts that occur; every other text is invalid JSON. *)
(* A model call either raises or returns a text.  In a graph run           *)
(* evidence_registry holds the artifact's text together with its parsed    *)
(* view, and checker_report the report whose json.dumps the checker        *)
(* returns (NoReport for the initial "").  The document exists, so open()  *)
(* succeeds, and response.usage is present.                                *)
(***************************************************************************)
\* str.rfind(c) with 1-based positions; 0 when there is none
FindLast(c, s) ==
    LET hits == {i \in 1..Len(s) : SubSeq(s, i, i) = c}
    IN  IF hits = {} THEN 0 ELSE CHOOSE i \in hits : \A j \in hits : i >= j

\* The substring from the first brace whatever follows it
BraceExtractFromFirstBrace(raw, default) ==
    LET first == FindFrom("{", raw, 1)
    IN  IF first >= 1 THEN SubSeq(raw, first, Len(raw)) ELSE default

\* start = raw.find('{'); end = raw.rfind('}') + 1;
\* raw[start:end] if start >= 0 and end > start else the default
BraceExtract(raw, default) ==
    LET first == FindFrom("{", raw, 1)
        last == FindLast("}", raw)
    IN  IF first >= 1 /\ last >= first THEN SubSeq(raw, first, last) ELSE default

\* the documented empty defaults
default_preliminary ==
    "{\"document_metadata\": {}, \"disclaimers\": [], \"performance_data\": [], \"rankings_awards\": [], \"definitions\": [], \"footnotes\": [], \"data_sources\": [], \"qualifications\": [], \"audience_indicators\": {}, \"temporal_context\": {}, \"visual_elements\": []}"

default_registry ==
    "{\"registry\": {\"meta\": {}, \"claims\": [], \"contradictions\": [], \"coverage_gaps\": []}}"

default_candidates == "{\"candidates\": []}"

default_findings == "{\"diagnostics\": [], \"sections\": []}"

default_results == "{\"results\": []}"

default_sections == "{\"sections\": []}"

\* registries as JSON objects, each text with the value json.loads gives it
RelevantClaim == Claim("C1", "1", "misleading_exaggerated", "Returns were 5%.", "", {})

QuietClaim == Claim("C1", "1", "performance", "Returns were 5%.", "", {})

FlaggedClaim == Claim("C2", "2", "performance", "See footnote 1.", "", {"NO_SUPPORT"})

FootnoteClaim == Claim("C2", "2", "misleading_exaggerated", "See footnote 1.", "", {})

\* a relevant claim without "claim_id"
UnidentifiedClaim ==
    [has_claim_id |-> FALSE, claim_id |-> "", page |-> "1",
     claim_type |-> "misleading_exaggerated", exact_text |-> "Returns were 5%.",
     support_text |-> "", flags |-> {}]

RegistryJson == <<
    [text |-> "{\"claims\": [{\"claim_id\": \"C1\", \"page\": \"1\", \"claim_type\": \"misleading_exaggerated\", \"exact_text\": \"Returns were 5%.\"}], \"contradictions\": []}",
     registry |-> [claims |-> <<RelevantClaim>>, contradictions |-> <<>>]],
    [text |-> "{\"claims\": [{\"claim_id\": \"C1\", \"page\": \"1\", \"claim_type\": \"performance\", \"exact_text\": \"Returns were 5%.\"}], \"contradictions\": []}",
     registry |-> [claims |-> <<QuietClaim>>, contradictions |-> <<>>]],
    [text |-> "{\"claims\": [{\"claim_id\": \"C1\", \"page\": \"1\", \"claim_type\": \"performance\", \"exact_text\": \"Returns were 5%.\"}, {\"claim_id\": \"C2\", \"page\": \"2\", \"claim_type\": \"performance\", \"exact_text\": \"See footnote 1.\", \"flags\": [\"NO_SUPPORT\"]}], \"contradictions\": [{\"contradiction_id\": \"X1\", \"claim_ids\": [\"C1\", \"C2\"]}]}",
     registry |-> [claims |-> <<QuietClaim, FlaggedClaim>>,
                   contradictions |-> <<[contradiction_id |-> "X1",
                                         claim_ids |-> <<"C1", "C2">>]>>]],
    [text |-> "{\"claims\": [{\"page\": \"1\", \"claim_type\": \"misleading_exaggerated\", \"exact_text\": \"Returns were 5%.\"}], \"contradictions\": []}",
     registry |-> [claims |-> <<UnidentifiedClaim>>, contradictions |-> <<>>]],
    [text |-> "{\"claims\": [{\"claim_id\": \"C2\", \"page\": \"2\", \"claim_type\": \"misleading_exaggerated\", \"exact_text\": \"See footnote 1.\"}], \"contradictions\": []}",
     registry |-> [claims |-> <<FootnoteClaim>>, contradictions |-> <<>>]] >>

\* {"registry": <object>}
WrapJson(text) == "{\"registry\": " \o text \o "}"

\* a JSON object that is no registry, with the keys the nodes read
JsonObject(fields) == fields @@ Unwrapped(EmptyRegistry)

candidates_json == "{\"candidates\": [{\"claim_id\": \"C1\", \"brief_reason\": \"guaranteed\"}]}"

candidates_compact == "{\"candidates\":[]}"

findings_json ==
    "{\"diagnostics\": [{\"claim_id\": \"C1\", \"disposition\": \"FLAG\"}], \"sections\": [{\"sentence\": \"Returns were 5%.\"}]}"

preliminary_json == "{\"disclaimers\": [], \"footnotes\": [\"See footnote 1.\"]}"

results_flag == "{\"results\": [{\"sentence\": \"Returns were 5%.\", \"disposition\": \"FLAG\"}]}"

results_clear == "{\"results\": [{\"sentence\": \"Returns were 5%.\", \"disposition\": \"CLEAR\"}]}"

sections_json == "{\"sections\": [{\"sentence\": \"Returns were 5%.\"}]}"

\* json.loads on the texts that are valid JSON
JsonValues ==
    [k \in {RegistryJson[i].text : i \in DOMAIN RegistryJson} |->
        Unwrapped((CHOOSE r \in SeqToSet(RegistryJson) : r.text = k).registry)]
    @@ [k \in {WrapJson(RegistryJson[i].text) : i \in DOMAIN RegistryJson} |->
        Wrapped((CHOOSE r \in SeqToSet(RegistryJson) : WrapJson(r.text) = k).registry)]
    @@ (default_registry :> Wrapped(EmptyRegistry))
    @@ (default_preliminary :> JsonObject([disclaimers |-> <<>>]))
    @@ (preliminary_json :> JsonObject([disclaimers |-> <<>>]))
    @@ (default_candidates :> JsonObject([candidates |-> <<>>]))
    @@ (candidates_compact :> JsonObject([candidates |-> <<>>]))
    @@ (candidates_json :> JsonObject([candidates |-> <<[claim_id |-> "C1"]>>]))
    @@ (default_findings :> JsonObject([diagnostics |-> <<>>, sections |-> <<>>]))
    @@ (findings_json :> JsonObject([diagnostics |-> <<[disposition |-> "FLAG"]>>,
                                     sections |-> <<[sentence |-> "Returns were 5%."]>>]))
    @@ (default_results :> JsonObject([results |-> <<>>]))
    @@ (results_flag :> JsonObject([results |-> <<[disposition |-> "FLAG"]>>]))
    @@ (results_clear :> JsonObject([results |-> <<[disposition |-> "CLEAR"]>>]))
    @@ (default_sections :> JsonObject([sections |-> <<>>]))
    @@ (sections_json :> JsonObject([sections |-> <<[sentence |-> "Returns were 5%."]>>]))
    @@ ("[]" :> NotAnObject("scalar"))

\* json.loads(text): the value, or kind "invalid" where it raises JSONDecodeError
json_loads(text) ==
    IF text \in DOMAIN JsonValues THEN JsonValues[text] ELSE NotAnObject("invalid")

\* json_loads that takes every text for a JSON object
json_loads_anything(text) ==
    IF text \in DOMAIN JsonValues THEN JsonValues[text] ELSE JsonObject([candidates |-> <<>>])

\* dict.get(key, []) where the value is a list
GetList(value, key) == IF key \in DOMAIN value THEN value[key] ELSE <<>>

\* a model call: client.messages.create raised, or response.content[0].text
Raised == [raised |-> TRUE, text |-> ""]

Returned(text) == [raised |-> FALSE, text |-> text]

\* the artifact a node makes of a model call: the text if json.loads takes
\* it, else the text between the braces, else the default; the default when
\* the call raised
ArtifactOf(response, default) ==
    IF response.raised THEN default
    ELSE IF json_loads(response.text).kind # "invalid" THEN response.text
    ELSE BraceExtract(response.text, default)

\* A reducer that takes the update whatever it is
_replace_by_new(current, new) == new

\* state.py: _replace, and node_config.py: reduce
_replace(current, new) == IF new = "" THEN current ELSE new

\* evidence_registry: the text with its parsed view
Loaded(text) == [text |-> text] @@ json_loads(text)

\* _replace on evidence_registry
ReplaceLoaded(current, new) == IF new = "" THEN current ELSE Loaded(new)

\* state.py: _replace_any, new if new is not None else current; the update
\* of a node holds a dict, never None
_replace_any(current, new) == new

\* runner.py: build_evidence_pipeline, and main.py: the edges of the two
\* graphs, each graph with its own START and END
START == "__start__"

END == "__end__"

EvidenceNodes ==
    <<"phase0_preliminary", "phase1_evidence", "registry_checker", "phase2_detect",
      "phase3_validate">>

LegacyNodes == <<"sec_misleading_detect", "sec_misleading_ask", "sec_misleading_flag">>

Edges ==
    {<<START, "phase0_preliminary">>, <<"phase0_preliminary", "phase1_evidence">>,
     <<"phase1_evidence", "registry_checker">>,
     <<"registry_checker", "phase2_detect">>, <<"phase2_detect", "phase3_validate">>,
     <<"phase3_validate", END>>,
     <<START, "sec_misleading_detect">>,
     <<"sec_misleading_detect", "sec_misleading_ask">>,
     <<"sec_misleading_ask", "sec_misleading_flag">>, <<"sec_misleading_flag", END>>}

Successors(node) == {e[2] : e \in {d \in Edges : d[1] = node}}

\* what a model call is given besides the fixed prompt
Prompt(texts, claims, contradictions, candidates) ==
    [texts |-> texts, claims |-> claims, contradictions |-> contradictions,
     candidates |-> candidates]

NoPrompt == Prompt(<<>>, <<>>, <<>>, <<>>)

\* what a node does: it raises, or returns an update, with or without a
\* model call
Raises == [raised |-> TRUE, called |-> FALSE, input |-> NoPrompt, update |-> <<>>]

Returns(update) == [raised |-> FALSE, called |-> FALSE, input |-> NoPrompt, update |-> update]

ReturnsAfterCall(input, update) ==
    [raised |-> FALSE, called |-> TRUE, input |-> input, update |-> update]

\* phase0_preliminary.py: phase0_preliminary_extract
phase0_preliminary_extract(path, response) ==
    ReturnsAfterCall(Prompt(<<path>>, <<>>, <<>>, <<>>),
        [preliminary_extraction |-> ArtifactOf(response, default_preliminary),
         token_usage |-> IF response.raised THEN {}
                         ELSE {"phase0_input", "phase0_output"}])

\* phase1_evidence.py: phase1_extract_evidence
phase1_extract_evidence(path, preliminary, usage, response) ==
    ReturnsAfterCall(
        Prompt(IF Strip(preliminary) # "" THEN <<path, preliminary>> ELSE <<path>>,
               <<>>, <<>>, <<>>),
        [evidence_registry |-> ArtifactOf(response, default_registry),
         token_usage |-> IF response.raised THEN usage
                         ELSE usage \cup {"phase1_input", "phase1_output"}])

\* phase2_detect.py
THEME1_RELEVANT_FLAGS ==
    {"GUARANTEED_LANGUAGE", "REGULATORY_ERROR", "NO_SUPPORT", "INTERNAL_CONTRADICTION",
     "MISSING_SOURCE", "PROXIMITY_FAIL", "PEER_SET_UNDEFINED", "STALE_DATA",
     "WINNER_VS_FINALIST", "FEE_WAIVER_IMPACT", "VISUAL_IMPLICATION", "PLACEHOLDER_DATA"}

\* Every claim taken as relevant to theme 1
AnyClaimRelevant(claim) == TRUE

Theme1Relevant(claim) ==
    \/ claim.claim_type = "misleading_exaggerated"
    \/ claim.flags \cap THEME1_RELEVANT_FLAGS # {}

\* _filter_claims_for_theme1; claim["claim_id"] of a relevant claim without
\* the key raises KeyError
_filter_claims_for_theme1(registry) ==
    LET filtered == SelectSeq(registry.claims, Theme1Relevant)
        filtered_ids == {c.claim_id : c \in SeqToSet(filtered)}
        Relevant(con) == SeqToSet(con.claim_ids) \cap filtered_ids # {}
    IN  [raised |-> \E c \in SeqToSet(filtered) : ~c.has_claim_id,
         claims |-> filtered,
         contradictions |-> SelectSeq(registry.contradictions, Relevant)]

\* phase2_theme1_detect; registry_data.get of a value that is no dict raises
\* AttributeError
phase2_theme1_detect(registry_data, usage, response) ==
    IF registry_data.text = "" \/ registry_data.kind = "invalid"
    THEN Returns([theme1_candidates |-> default_candidates])
    ELSE IF registry_data.kind # "object" THEN Raises
    ELSE LET filter == _filter_claims_for_theme1(RegistryOf(registry_data))
         IN  IF filter.raised THEN Raises
             ELSE IF filter.claims = <<>>
             THEN Returns([theme1_candidates |-> default_candidates])
             ELSE ReturnsAfterCall(
                      Prompt(<<>>, filter.claims, filter.contradictions, <<>>),
                      IF response.raised
                      THEN [theme1_candidates |-> default_candidates]
                      ELSE [theme1_candidates |-> ArtifactOf(response, default_candidates),
                            token_usage |-> usage \cup {"phase2_input", "phase2_output"}])

\* phase3_validate.py: claim_lookup.get(claim_id, {}) of each candidate
EnrichedCandidates(candidates, claims) ==
    [i \in DOMAIN candidates |->
        [claim_id |-> candidates[i].claim_id,
         registry_entry |->
            LET found == {k \in DOMAIN claims : claims[k].claim_id = candidates[i].claim_id}
            IN  IF found = {} THEN <<>>
                ELSE <<claims[CHOOSE k \in found : \A j \in found : k >= j]>>]]

\* phase3_theme1_validate; claim["claim_id"] of a claim without the key
\* raises KeyError and candidates_data.get of a value that is no dict
\* AttributeError
phase3_theme1_validate(candidates_text, registry_data, usage, response) ==
    IF candidates_text = "" \/ candidates_text = default_candidates
    THEN Returns([theme1_findings |-> default_findings])
    ELSE IF registry_data.kind = "scalar" THEN Raises
    ELSE LET registry == IF registry_data.kind = "invalid" THEN EmptyRegistry
                         ELSE RegistryOf(registry_data)
             candidates_data == json_loads(candidates_text)
         IN  IF \E c \in SeqToSet(registry.claims) : ~c.has_claim_id THEN Raises
             ELSE IF candidates_data.kind = "scalar" THEN Raises
             ELSE IF candidates_data.kind = "invalid"
                     \/ GetList(candidates_data, "candidates") = <<>>
             THEN Returns([theme1_findings |-> default_findings])
             ELSE ReturnsAfterCall(
                      Prompt(<<>>, <<>>, registry.contradictions,
                             EnrichedCandidates(GetList(candidates_data, "candidates"),
                                                registry.claims)),
                      IF response.raised
                      THEN [theme1_findings |-> default_findings]
                      ELSE [theme1_findings |-> ArtifactOf(response, default_findings),
                            token_usage |-> usage \cup {"phase3_input", "phase3_output"}])

\* registry_checker.py: validate_registry past its two error reports: the
\* report of the five audits, one for each order of the orphan numbers
FullReports(page_texts, registry) ==
    UNION {{FullReport(page_texts, registry, audit, AllIssues(others, order)) :
                order \in Orderings(audit.orphan_numbers)} :
            audit \in {NumericalAudit(page_texts, registry)},
            others \in {OtherAudits(page_texts, registry)}}

\* registry_checker.py: validate_registry as the node registry_checker: what
\* it may return
RegistryCheckerOutcomes(doc, registry_data) ==
    IF registry_data.kind = "invalid"
    THEN {Returns([checker_report |-> ParseErrorReport])}
    ELSE IF registry_data.kind # "object" THEN {Raises}
    ELSE IF ~doc.readable THEN {Returns([checker_report |-> PdfErrorReport])}
    ELSE IF ContradictionCheckRaises(RegistryOf(registry_data)) THEN {Raises}
    ELSE {Returns([checker_report |-> report]) :
            report \in FullReports(doc.pages, RegistryOf(registry_data))}

\* node_config.py: NULL_TOKEN_DATA, and the counts of a response
NULL_TOKEN_DATA == "null"

TokenCounts == "counted"

\* node_detect.py: sec_misleading_detect; a legacy node returns the whole
\* state with its keys replaced
sec_misleading_detect(state, response) ==
    ReturnsAfterCall(Prompt(<<state.pdf_path>>, <<>>, <<>>, <<>>),
        [state EXCEPT !.SEC_misleading_detect_artifact =
                          ArtifactOf(response, default_candidates)])

\* node_ask.py: sec_misleading_ask
sec_misleading_ask(state, response) ==
    IF state.SEC_misleading_detect_artifact \in {"", default_candidates}
    THEN Returns([state EXCEPT !.SEC_misleading_ask_artifact = default_results])
    ELSE ReturnsAfterCall(
             Prompt(<<state.pdf_path, state.SEC_misleading_detect_artifact>>,
                    <<>>, <<>>, <<>>),
             [state EXCEPT !.SEC_misleading_ask_artifact =
                               ArtifactOf(response, default_results)])

\* the results of the ask artifact with disposition FLAG
FlaggedOnly(results) == SelectSeq(results, LAMBDA r : r.disposition = "FLAG")

\* node_flag.py: sec_misleading_flag; ask_data.get of a value that is no
\* dict raises AttributeError
sec_misleading_flag(state, response) ==
    LET ask_artifact == state.SEC_misleading_ask_artifact
        ask_data == json_loads(ask_artifact)
        nothing == [state EXCEPT !.SEC_misleading_artifact = default_sections,
                                 !.SEC_misleading_token_data = NULL_TOKEN_DATA]
    IN  IF ask_artifact \in {"", default_results} THEN Returns(nothing)
        ELSE IF ask_data.kind = "scalar" THEN Raises
        ELSE IF ask_data.kind = "object" /\ FlaggedOnly(GetList(ask_data, "results")) = <<>>
        THEN Returns(nothing)
        ELSE ReturnsAfterCall(
                 IF ask_data.kind = "object"
                 THEN Prompt(<<state.pdf_path>>, <<>>, <<>>,
                             FlaggedOnly(GetList(ask_data, "results")))
                 ELSE Prompt(<<state.pdf_path, ask_artifact>>, <<>>, <<>>, <<>>),
                 IF response.raised THEN nothing
                 ELSE [state EXCEPT !.SEC_misleading_artifact =
                                        ArtifactOf(response, default_sections),
                                    !.SEC_misleading_token_data = TokenCounts])

\* The channels of PipelineState after an update, each key under its reducer;
\* json.dumps of a report is never empty
Merge(update) ==
    /\ pdf_path' = IF "pdf_path" \in DOMAIN update
                   THEN _replace(pdf_path, update.pdf_path) ELSE pdf_path
    /\ preliminary_extraction' =
            IF "preliminary_extraction" \in DOMAIN update
            THEN _replace(preliminary_extraction, update.preliminary_extraction)
            ELSE preliminary_extraction
    /\ evidence_registry' =
            IF "evidence_registry" \in DOMAIN update
            THEN ReplaceLoaded(evidence_registry, update.evidence_registry)
            ELSE evidence_registry
    /\ checker_report' = IF "checker_report" \in DOMAIN update
                         THEN update.checker_report ELSE checker_report
    /\ theme1_candidates' =
            IF "theme1_candidates" \in DOMAIN update
            THEN _replace(theme1_candidates, update.theme1_candidates)
            ELSE theme1_candidates
    /\ theme1_findings' =
            IF "theme1_findings" \in DOMAIN update
            THEN _replace(theme1_findings, update.theme1_findings)
            ELSE theme1_findings
    /\ token_usage' = IF "token_usage" \in DOMAIN update
                      THEN _replace_any(token_usage, update.token_usage) ELSE token_usage

\* AgentStateParallel as a legacy node reads it
LegacyState ==
    [pdf_path |-> pdf_path,
     SEC_misleading_detect_artifact |-> SEC_misleading_detect_artifact,
     SEC_misleading_ask_artifact |-> SEC_misleading_ask_artifact,
     SEC_misleading_artifact |-> SEC_misleading_artifact,
     SEC_misleading_token_data |-> SEC_misleading_token_data]

\* The channels of AgentStateParallel after an update, under reduce and
\* token_reduce
LegacyMerge(update) ==
    /\ pdf_path' = IF "pdf_path" \in DOMAIN update
                   THEN _replace(pdf_path, update.pdf_path) ELSE pdf_path
    /\ SEC_misleading_detect_artifact' =
            IF "SEC_misleading_detect_artifact" \in DOMAIN update
            THEN _replace(SEC_misleading_detect_artifact,
                          update.SEC_misleading_detect_artifact)
            ELSE SEC_misleading_detect_artifact
    /\ SEC_misleading_ask_artifact' =
            IF "SEC_misleading_ask_artifact" \in DOMAIN update
            THEN _replace(SEC_misleading_ask_artifact, update.SEC_misleading_ask_artifact)
            ELSE SEC_misleading_ask_artifact
    /\ SEC_misleading_artifact' =
            IF "SEC_misleading_artifact" \in DOMAIN update
            THEN _replace(SEC_misleading_artifact, update.SEC_misleading_artifact)
            ELSE SEC_misleading_artifact
    /\ SEC_misleading_token_data' =
            IF "SEC_misleading_token_data" \in DOMAIN update
            THEN _replace(SEC_misleading_token_data, update.SEC_misleading_token_data)
            ELSE SEC_misleading_token_data

\* A step of the graph in which a report that has not passed ends the run
RanUnlessCheckFailed(node, outcome) ==
    /\ executed' = Append(executed, node)
    /\ model_calls' = IF outcome.called
                      THEN Append(model_calls, [node |-> node, input |-> outcome.input])
                      ELSE model_calls
    /\ raised_node' = IF outcome.raised THEN node ELSE raised_node
    /\ active' = IF outcome.raised THEN {}
                 ELSE IF "checker_report" \in DOMAIN outcome.update
                         /\ ~outcome.update.checker_report.passed THEN {END}
                 ELSE (active \ {node}) \cup Successors(node)

\* A step of the graph: the node runs; an exception leaves app.invoke and
\* ends the run, a return schedules the node's successors
Ran(node, outcome) ==
    /\ executed' = Append(executed, node)
    /\ model_calls' = IF outcome.called
                      THEN Append(model_calls, [node |-> node, input |-> outcome.input])
                      ELSE model_calls
    /\ raised_node' = IF outcome.raised THEN node ELSE raised_node
    /\ active' = IF outcome.raised THEN {}
                 ELSE (active \ {node}) \cup Successors(node)

NotOfTheGraphs ==
    <<pdf, checker_pc, matcher_vars, database_vars, bench_vars, review_vars, pure_vars>>

\* the texts a model call may return, or the call raises
Responses(texts) == {Raised} \cup {Returned(t) : t \in texts}

\* a valid JSON text inside prose
InProse(text) == "Here is the JSON: " \o text \o " Done."

Phase0Texts == {preliminary_json, InProse(preliminary_json), "[]", "none"}

Phase1Texts ==
    {RegistryJson[i].text : i \in DOMAIN RegistryJson}
    \cup {WrapJson(RegistryJson[i].text) : i \in DOMAIN RegistryJson}
    \cup {InProse(WrapJson(RegistryJson[1].text)), "[]", "{oops}", "no json", "} {"}

Phase2Texts ==
    {candidates_json, candidates_compact, default_candidates, InProse(candidates_json),
     "[]", "{oops}", "none"}

Phase3Texts == {findings_json, InProse(findings_json), "[]", "{oops}", "none"}

DetectTexts == {candidates_json, default_candidates, InProse(candidates_json), "[]", "none"}

AskTexts == {results_flag, results_clear, InProse(results_flag), "[]", "{oops}", "none"}

FlagTexts == {sections_json, InProse(sections_json), "[]", "none"}

LegacyUntouched == <<legacy_vars, NotOfTheGraphs>>

EvidenceUntouched ==
    <<preliminary_extraction, evidence_registry, checker_report, theme1_candidates,
      theme1_findings, token_usage, NotOfTheGraphs>>

phase0_preliminary ==
    /\ "phase0_preliminary" \in active
    /\ \E response \in Responses(Phase0Texts) :
        \E outcome \in {phase0_preliminary_extract(pdf_path, response)} :
            Merge(outcome.update) /\ Ran("phase0_preliminary", outcome)
    /\ UNCHANGED LegacyUntouched

phase1_evidence ==
    /\ "phase1_evidence" \in active
    /\ \E response \in Responses(Phase1Texts) :
        \E outcome \in {phase1_extract_evidence(pdf_path, preliminary_extraction,
                                                token_usage, response)} :
            Merge(outcome.update) /\ Ran("phase1_evidence", outcome)
    /\ UNCHANGED LegacyUntouched

registry_checker ==
    /\ "registry_checker" \in active
    /\ \E outcome \in RegistryCheckerOutcomes(pdf, evidence_registry) :
            Merge(outcome.update) /\ Ran("registry_checker", outcome)
    /\ UNCHANGED LegacyUntouched

phase2_detect ==
    /\ "phase2_detect" \in active
    /\ \E response \in Responses(Phase2Texts) :
        \E outcome \in {phase2_theme1_detect(evidence_registry, token_usage, response)} :
            Merge(outcome.update) /\ Ran("phase2_detect", outcome)
    /\ UNCHANGED LegacyUntouched

phase3_validate ==
    /\ "phase3_validate" \in active
    /\ \E response \in Responses(Phase3Texts) :
        \E outcome \in {phase3_theme1_validate(theme1_candidates, evidence_registry,
                                               token_usage, response)} :
            Merge(outcome.update) /\ Ran("phase3_validate", outcome)
    /\ UNCHANGED LegacyUntouched

detect_node ==
    /\ "sec_misleading_detect" \in active
    /\ \E response \in Responses(DetectTexts) :
        \E outcome \in {sec_misleading_detect(LegacyState, response)} :
            LegacyMerge(outcome.update) /\ Ran("sec_misleading_detect", outcome)
    /\ UNCHANGED EvidenceUntouched

ask_node ==
    /\ "sec_misleading_ask" \in active
    /\ \E response \in Responses(AskTexts) :
        \E outcome \in {sec_misleading_ask(LegacyState, response)} :
            LegacyMerge(outcome.update) /\ Ran("sec_misleading_ask", outcome)
    /\ UNCHANGED EvidenceUntouched

flag_node ==
    /\ "sec_misleading_flag" \in active
    /\ \E response \in Responses(FlagTexts) :
        \E outcome \in {sec_misleading_flag(LegacyState, response)} :
            LegacyMerge(outcome.update) /\ Ran("sec_misleading_flag", outcome)
    /\ UNCHANGED EvidenceUntouched

\* run_evidence_pipeline and run_workflow: the initial state of a run of
\* either graph, on a document that exists and that fitz may fail to open
InitPipeline ==
    /\ pdf_path = "fund.pdf"
    /\ pdf \in {PlainDoc, Unreadable}
    /\ preliminary_extraction = ""
    /\ evidence_registry = Loaded("")
    /\ checker_report = NoReport
    /\ theme1_candidates = ""
    /\ theme1_findings = ""
    /\ token_usage = {}
    /\ SEC_misleading_detect_artifact = ""
    /\ SEC_misleading_ask_artifact = ""
    /\ SEC_misleading_artifact = ""
    /\ SEC_misleading_token_data = ""
    /\ active \in {{entry} : entry \in Successors(START)}
    /\ executed = <<>>
    /\ model_calls = <<>>
    /\ raised_node = ""
    /\ checker_pc = "idle"
    /\ left_items = <<>>
    /\ ground_truth = <<>>
    /\ threshold = [num |-> 0, den |-> 1]
    /\ match_result = [matches |-> <<>>]
    /\ metrics = NoMetrics
    /\ match_pc = "idle"
    /\ BenchIdle
    /\ PureIdle

NextPipeline ==
    \/ phase0_preliminary
    \/ phase1_evidence
    \/ registry_checker
    \/ phase2_detect
    \/ phase3_validate
    \/ detect_node
    \/ ask_node
    \/ flag_node

SpecPipeline == InitPipeline /\ [][NextPipeline]_vars

(***************************************************************************)
(* Properties of the registry checker, under SpecChecker                   *)
(***************************************************************************)
\* validate_registry has returned the report of the five audits
Audited == checker_pc = "returned" /\ evidence_registry.kind = "object" /\ pdf.readable

AuditedClaims == RegistryOf(evidence_registry).claims

\* the source text, lowercased and with whitespace runs collapsed
SourceText == _normalize(JoinBlank(pdf.pages))

\* the word occurs in the source text, case and whitespace aside
InSource(word) == Contains(word, SourceText)

\* the phrases whose key fragment occurs in the source text
PhrasesInSource ==
    UNION {{k \in DOMAIN NEGATION_CRITICAL_PHRASES : FragmentInSource(k, source)} :
              source \in {SourceText}}

\* the required negation words that occur in the source text
WordsInSource ==
    UNION {{word \in UNION {SeqToSet(NEGATION_CRITICAL_PHRASES[k].required_negations) :
                               k \in DOMAIN NEGATION_CRITICAL_PHRASES} :
               Contains(word, source)} :
              source \in {SourceText}}

\* the word occurs in the registry's captured disclaimer text: the text of a
\* claim typed "disclosures" or the support text of any claim
InCapture(word) ==
    \E i \in DOMAIN AuditedClaims :
        \/ /\ AuditedClaims[i].claim_type = "disclosures"
           /\ Contains(word, _normalize(AuditedClaims[i].exact_text))
        \/ Contains(word, _normalize(AuditedClaims[i].support_text))

\* the word occurs in the text of a claim typed "disclosures"
InClaimText(word) ==
    \E i \in DOMAIN AuditedClaims :
        /\ AuditedClaims[i].claim_type = "disclosures"
        /\ Contains(word, _normalize(AuditedClaims[i].exact_text))

GarbledIssues ==
    {i \in DOMAIN checker_report.issues :
        checker_report.issues[i].type = "GARBLED_DISCLAIMER"}

GarbledNaming(word) ==
    \E i \in GarbledIssues : checker_report.issues[i].expected_negation = word

Checks == DOMAIN NEGATION_CRITICAL_PHRASES

Required(k) == SeqToSet(NEGATION_CRITICAL_PHRASES[k].required_negations)

\* C1: after an audit, for each negation-critical phrase whose key fragment
\* occurs in the source and each of its required negation words that is in
\* the source text but not in the registry's captured disclaimer text, the
\* report holds a GARBLED_DISCLAIMER issue of that phrase naming the word.
C1_MissedNegationIsReported ==
    Audited =>
        \A k \in PhrasesInSource : \A word \in Required(k) \cap WordsInSource :
            ~InCapture(word)
                => \E i \in GarbledIssues :
                      /\ checker_report.issues[i].expected_negation = word
                      /\ checker_report.issues[i].description
                            = NEGATION_CRITICAL_PHRASES[k].description

\* the source holds "has NOT approved or disapproved", the only claim holds
\* the word in its text but is not typed "disclosures": "not" is reported
C1_Witness ==
    /\ Audited
    /\ FragmentInSource(2, SourceText)
    /\ InSource("not")
    /\ ~InCapture("not")
    /\ \E i \in DOMAIN AuditedClaims :
          /\ AuditedClaims[i].claim_type # "disclosures"
          /\ Contains("not", _normalize(AuditedClaims[i].exact_text))
    /\ GarbledNaming("not")

C3_NoIssueWhenAbsentFromBoth ==
    Audited =>
        \A k \in Checks : \A word \in Required(k) \ WordsInSource :
            ~InCapture(word) => ~GarbledNaming(word)

\* the garbled source "approved or disapproved" captured verbatim by a
\* disclosures claim: no GARBLED_DISCLAIMER issue at all
C3_Witness ==
    /\ Audited
    /\ FragmentInSource(2, SourceText)
    /\ ~InSource("not")
    /\ ~InCapture("not")
    /\ \E i \in DOMAIN AuditedClaims :
          /\ AuditedClaims[i].claim_type = "disclosures"
          /\ _normalize(AuditedClaims[i].exact_text) = _normalize(JoinBlank(pdf.pages))
    /\ GarbledIssues = {}

\* the coverage validate_registry computed for the report in hand: 0.0 in
\* the two error reports, else 1 - orphans / source numbers
ComputedCoverage ==
    IF Audited
    THEN NumericalCoverage(NumericalAudit(pdf.pages, RegistryOf(evidence_registry)))
    ELSE [num |-> 0, den |-> 1]

IssueTypes == {checker_report.issues[i].type : i \in DOMAIN checker_report.issues}

\* C4: in every returned report, passed is true exactly when the coverage
\* is at least 0.70 and no issue is of type GARBLED_DISCLAIMER, PARSE_ERROR
\* or PDF_EXTRACT_ERROR; so a report with coverage of at least 0.70 whose
\* issues are all of the types MISSING_PAGE, ORPHAN_NUMBER,
\* MISSED_DISCLAIMER, INVALID_REFERENCE and ORPHAN_FLAG has passed = true.
C4_PassRule ==
    checker_pc = "returned" =>
      \A coverage \in {ComputedCoverage} :
        /\ checker_report.coverage_score = Round3(coverage)
        /\ checker_report.passed <=>
              /\ 100 * coverage.num >= 70 * coverage.den
              /\ IssueTypes \cap {"GARBLED_DISCLAIMER", "PARSE_ERROR", "PDF_EXTRACT_ERROR"} = {}
        /\ ( /\ 100 * coverage.num >= 70 * coverage.den
             /\ IssueTypes \subseteq {"MISSING_PAGE", "ORPHAN_NUMBER", "MISSED_DISCLAIMER",
                                      "INVALID_REFERENCE", "ORPHAN_FLAG"} )
              => checker_report.passed

\* a report whose only issues are MISSING_PAGE, with coverage 1.0: passed
C4_Witness ==
    /\ Audited
    /\ IssueTypes = {"MISSING_PAGE"}
    /\ checker_report.coverage_score = 1000
    /\ checker_report.passed

\* C5, as stated: validate_registry never raises.
C5_NeverRaises == checker_pc # "raised"

(***************************************************************************)
(* Properties of the greedy matchers, under SpecMatcher                    *)
(***************************************************************************)
Matched == match_pc \in {"claims", "findings", "bench"}

\* the accepted pairs of the call that returned, as [left, gt, similarity]
AcceptedPairs ==
    IF match_pc = "bench"
    THEN [n \in DOMAIN match_result.matched |->
            [left |-> match_result.matched[n].finding,
             gt |-> match_result.matched[n].ground_truth,
             similarity |-> match_result.matched[n].similarity]]
    ELSE match_result.matches

\* what an accepted pair calls the left item at position i (from 1)
LeftKey(i) == IF match_pc = "claims" THEN left_items[i].claim_id ELSE i - 1

\* the score of the left item at position i against ground-truth entry j
Score(i, j) ==
    sentence_similarity(IF match_pc = "claims" THEN left_items[i].exact_text
                        ELSE left_items[i].sentence,
                        ground_truth[j].sentence)

Reaches(i, j) == Score(i, j).num * threshold.den >= threshold.num * Score(i, j).den

Candidates == (DOMAIN left_items) \X (DOMAIN ground_truth)

\* candidate c is an accepted pair
Accepted(c) ==
    \E n \in DOMAIN AcceptedPairs :
        /\ AcceptedPairs[n].left = LeftKey(c[1])
        /\ AcceptedPairs[n].gt = c[2] - 1
        /\ AcceptedPairs[n].similarity = Round3(Score(c[1], c[2]))

\* candidates c and d compete for a left item or a ground-truth entry
Compete(c, d) == LeftKey(c[1]) = LeftKey(d[1]) \/ c[2] = d[2]

\* C6: after a call of any of the three matchers, no left item and no
\* ground-truth entry is in two accepted pairs.
C6_OneToOne ==
    Matched =>
        \A m, n \in DOMAIN AcceptedPairs :
            m # n => /\ AcceptedPairs[m].left # AcceptedPairs[n].left
                     /\ AcceptedPairs[m].gt # AcceptedPairs[n].gt

\* two left items reach the threshold against the only ground-truth entry,
\* and one pair is accepted
C6_Witness ==
    /\ Matched
    /\ Len(left_items) = 2 /\ Len(ground_truth) = 1
    /\ LeftKey(1) # LeftKey(2)
    /\ Reaches(1, 1) /\ Reaches(2, 1)
    /\ Len(AcceptedPairs) = 1

\* C7: every accepted pair is a candidate whose score is at least the
\* threshold; with a threshold above 1 no pair is accepted, and the coverage
\* of a non-empty ground truth is 0.
C7_AcceptedReachThreshold ==
    Matched =>
        /\ \A n \in DOMAIN AcceptedPairs :
              \E c \in Candidates :
                  /\ AcceptedPairs[n].left = LeftKey(c[1])
                  /\ AcceptedPairs[n].gt = c[2] - 1
                  /\ AcceptedPairs[n].similarity = Round3(Score(c[1], c[2]))
                  /\ Reaches(c[1], c[2])
        /\ threshold.num > threshold.den =>
              /\ AcceptedPairs = <<>>
              /\ (match_pc # "bench" /\ ground_truth # <<>>) => match_result.coverage.num = 0

\* threshold 1.1 against identical sentences: nothing accepted, coverage 0
C7_Witness ==
    /\ match_pc = "claims"
    /\ threshold.num > threshold.den
    /\ \E c \in Candidates : Score(c[1], c[2]).num = Score(c[1], c[2]).den
    /\ AcceptedPairs = <<>>
    /\ match_result.coverage.num = 0

\* c comes before d in input order: the loop order of the score matrix
EarlierInInput(c, d) == c[1] < d[1] \/ (c[1] = d[1] /\ c[2] < d[2])

ScoreTuple(c) == [sim |-> Score(c[1], c[2]), left |-> LeftKey(c[1]), gt |-> c[2] - 1]

\* C8, as stated: a candidate that reaches the threshold and is not accepted
\* lost to an accepted competitor of greater score, or of equal score and
\* earlier in input order.
C8_AsStated ==
    Matched =>
        \A c \in Candidates :
            (Reaches(c[1], c[2]) /\ ~Accepted(c)) =>
                \E d \in Candidates :
                    /\ Accepted(d) /\ Compete(c, d)
                    /\ \/ FracGt(Score(d[1], d[2]), Score(c[1], c[2]))
                       \/ /\ FracEq(Score(d[1], d[2]), Score(c[1], c[2]))
                          /\ EarlierInInput(d, c)

\* C8, as the code has it: the accepted pairs are listed by descending
\* score, and a candidate that reaches the threshold and is not accepted
\* lost to an accepted competitor that is greater as a tuple (score, left
\* key, ground-truth index): of greater score, or of equal score and
\* greater left key (finding index, or claim_id as a string), or of equal
\* score and left key and greater ground-truth index.
C8_TiesGoToTheGreaterTuple ==
    Matched =>
        /\ \A n \in 1..(Len(AcceptedPairs) - 1) :
              AcceptedPairs[n].similarity >= AcceptedPairs[n + 1].similarity
        /\ \A c \in Candidates :
              (Reaches(c[1], c[2]) /\ ~Accepted(c)) =>
                  \E d \in Candidates :
                      /\ Accepted(d) /\ Compete(c, d)
                      /\ \/ FracGt(Score(d[1], d[2]), Score(c[1], c[2]))
                         \/ /\ FracEq(Score(d[1], d[2]), Score(c[1], c[2]))
                            /\ IF match_pc = "claims"
                               THEN StrGt(LeftKey(d[1]), LeftKey(c[1]))
                               ELSE LeftKey(d[1]) > LeftKey(c[1])
                         \/ /\ FracEq(Score(d[1], d[2]), Score(c[1], c[2]))
                            /\ LeftKey(d[1]) = LeftKey(c[1])
                            /\ d[2] > c[2]

\* two findings of equal score against the only ground-truth entry: the
\* second, not the first, is accepted
C8_Witness ==
    /\ match_pc \in {"findings", "bench"}
    /\ Len(left_items) = 2 /\ Len(ground_truth) = 1
    /\ Reaches(1, 1)
    /\ FracEq(Score(1, 1), Score(2, 1))
    /\ Len(AcceptedPairs) = 1
    /\ AcceptedPairs[1].left = 1

\* C9, as stated: with an empty left list or an empty ground truth no pair
\* is accepted, and the coverage is 1.0 if the ground truth is empty and
\* 0.0 otherwise.
C9_AsStated ==
    (Matched /\ (left_items = <<>> \/ ground_truth = <<>>)) =>
        /\ AcceptedPairs = <<>>
        /\ match_pc # "bench" =>
              IF ground_truth = <<>>
              THEN match_result.coverage.num = match_result.coverage.den
              ELSE match_result.coverage.num = 0

\* C9, as the code has it: with an empty left list or an empty ground truth
\* no pair is accepted and the coverage is 0.0, whichever list is empty.
C9_EmptySideGivesZeroCoverage ==
    (Matched /\ (left_items = <<>> \/ ground_truth = <<>>)) =>
        /\ AcceptedPairs = <<>>
        /\ match_pc # "bench" =>
              /\ match_result.coverage.num = 0
              /\ match_result.coverage.den > 0

\* claims against an empty ground truth: coverage 0.0
C9_Witness ==
    /\ match_pc = "claims"
    /\ left_items # <<>>
    /\ ground_truth = <<>>
    /\ AcceptedPairs = <<>>
    /\ match_result.coverage.num = 0

MatchedGt == {AcceptedPairs[n].gt : n \in DOMAIN AcceptedPairs}

\* C10: for a non-empty ground truth the coverage is the number of
\* ground-truth entries in accepted pairs over the number of ground-truth
\* entries, and lies in [0, 1]; one left item and one ground-truth entry
\* whose score reaches the threshold give one accepted pair and coverage 1.
C10_CoverageIsMatchedOverTotal ==
    (match_pc \in {"claims", "findings"} /\ ground_truth # <<>>) =>
        /\ match_result.coverage.den > 0
        /\ match_result.coverage.num * Len(ground_truth)
              = Cardinality(MatchedGt) * match_result.coverage.den
        /\ 0 <= match_result.coverage.num
        /\ match_result.coverage.num <= match_result.coverage.den
        /\ (Len(left_items) = 1 /\ Len(ground_truth) = 1 /\ Reaches(1, 1)) =>
              /\ Len(AcceptedPairs) = 1
              /\ match_result.coverage.num = match_result.coverage.den

\* two ground-truth entries, one of them matched: coverage 1/2
C10_Witness ==
    /\ match_pc \in {"claims", "findings"}
    /\ Len(ground_truth) = 2
    /\ Cardinality(MatchedGt) = 1
    /\ 2 * match_result.coverage.num = match_result.coverage.den

(***************************************************************************)
(* What the matchers return about the items they did not match             *)
(***************************************************************************)
\* the n-th smallest element of a set of positions
Nth(S, n) == CHOOSE j \in S : Cardinality({k \in S : k <= j}) = n

\* the items at the positions of S, in input order
ItemsAt(items, S) == [n \in 1..Cardinality(S) |-> items[Nth(S, n)]]

\* positions (from 1) of the ground-truth entries in no accepted pair
MissedPositions == {j \in DOMAIN ground_truth : (j - 1) \notin MatchedGt}

\* positions (from 1) of the left items in no accepted pair
ExtraPositions ==
    {i \in DOMAIN left_items : \A n \in DOMAIN AcceptedPairs : AcceptedPairs[n].left # LeftKey(i)}

\* every ground-truth entry is matched or missed, never both
GroundTruthPartitioned ==
    /\ match_result.missed_gt = ItemsAt(ground_truth, MissedPositions)
    /\ Len(AcceptedPairs) + Len(match_result.missed_gt) = Len(ground_truth)

\* every left item is matched or returned as unmatched, never both
LeftPartitioned ==
    /\ "unmatched_findings" \in DOMAIN match_result
    /\ match_result.unmatched_findings = ItemsAt(left_items, ExtraPositions)
    /\ Len(AcceptedPairs) + Len(match_result.unmatched_findings) = Len(left_items)

\* C11 as stated: every matcher returns the unmatched items of both sides,
\* and they partition the inputs.
C11_AsStated == Matched => (GroundTruthPartitioned /\ LeftPartitioned)

\* C11: every matcher returns the missed ground-truth entries, which with
\* the matched ones partition the ground truth; the benchmark matcher also
\* returns the unmatched findings, which with the matched ones partition
\* the findings; the two matchers of ground_truth.py return the matched
\* claim ids or finding indices and no list of unmatched left items.
C11_UnmatchedPartition ==
    /\ Matched => GroundTruthPartitioned
    /\ match_pc = "bench" => LeftPartitioned
    /\ match_pc = "claims" =>
          DOMAIN match_result = {"matched_claim_ids", "matched_gt_indices", "matches",
                                 "missed_gt", "coverage"}
    /\ match_pc = "findings" =>
          DOMAIN match_result = {"matched_finding_indices", "matched_gt_indices", "matches",
                                 "missed_gt", "coverage"}

\* two findings and two entries, one pair accepted: one extra, one missed
C11_Witness ==
    /\ match_pc = "bench"
    /\ Len(left_items) = 2
    /\ Len(ground_truth) = 2
    /\ Len(match_result.matched) = 1
    /\ Len(match_result.unmatched_findings) = 1
    /\ Len(match_result.missed_gt) = 1

(***************************************************************************)
(* Properties of compute_metrics, under SpecMatcher                        *)
(***************************************************************************)
Measured == metrics # NoMetrics

\* x, in thousandths, is num / den rounded to three decimals
IsRounded(x, num, den) == 2 * (1000 * num - x * den) <= den /\ 2 * (x * den - 1000 * num) <= den

\* x, in thousandths, is num / den rounded, or 0 when den is 0
IsRatioOrZero(x, num, den) == IF den = 0 THEN x = 0 ELSE IsRounded(x, num, den)

\* C12: the metrics of a benchmark match are tp = |matched|, fp =
\* |unmatched findings|, fn = |missed ground truth|, precision = tp/(tp+fp),
\* recall = tp/(tp+fn) and F1 = 2PR/(P+R), each 0 when its denominator is
\* 0; two ground-truth entries and no finding give no matched pair, tp = 0,
\* fp = 0, fn = 2 and precision, recall and F1 all 0.
C12_Metrics ==
    Measured =>
        LET tp == Len(match_result.matched)
            fp == Len(match_result.unmatched_findings)
            fn == Len(match_result.missed_gt)
        IN  /\ metrics.true_positives = tp
            /\ metrics.false_positives = fp
            /\ metrics.false_negatives = fn
            /\ IsRatioOrZero(metrics.precision, tp, tp + fp)
            /\ IsRatioOrZero(metrics.recall, tp, tp + fn)
            \* P = tp/(tp+fp), R = tp/(tp+fn): 2PR/(P+R) over a common denominator
            /\ IsRatioOrZero(metrics.f1_score, 2 * tp * tp * (tp + fp) * (tp + fn),
                             (tp * (tp + fn) + tp * (tp + fp)) * (tp + fp) * (tp + fn))
            /\ (Len(ground_truth) = 2 /\ left_items = <<>>) =>
                  /\ match_result.matched = <<>>
                  /\ tp = 0 /\ fp = 0 /\ fn = 2
                  /\ metrics.precision = 0 /\ metrics.recall = 0 /\ metrics.f1_score = 0

\* two ground-truth entries, no finding, metrics computed
C12_Witness ==
    /\ Measured
    /\ Len(ground_truth) = 2
    /\ left_items = <<>>
    /\ metrics.false_negatives = 2
    /\ metrics.precision = 0

\* one matched pair and one extra finding: precision 0.5, recall 1, F1 0.667
C12_GeneralCase ==
    /\ Measured
    /\ metrics.true_positives = 1
    /\ metrics.false_positives = 1
    /\ metrics.false_negatives = 0
    /\ metrics.precision = 500
    /\ metrics.recall = 1000
    /\ metrics.f1_score = 667

(***************************************************************************)
(* Properties of the benchmark run and the review app, under SpecBench     *)
(***************************************************************************)
\* the positions of the active ground-truth entries of a test case
OwnEntries(tc_id) ==
    {k \in DOMAIN ground_truth_db :
        ground_truth_db[k].is_active /\ ground_truth_db[k].tc_id = tc_id}

\* every entry of the list is an active entry of the test case
AllOwn(entries, tc_id) ==
    \A n \in DOMAIN entries :
        \E k \in OwnEntries(tc_id) : entries[n] = ground_truth_db[k]

\* a stage of a stored result accounts for the test case's entries only
StageIsOwn(stage, tc_id) ==
    /\ Len(stage.matched) + Len(stage.missed) = Cardinality(OwnEntries(tc_id))
    /\ \A n \in DOMAIN stage.missed :
          \E k \in OwnEntries(tc_id) : stage.missed[n] = ground_truth_db[k].sentence

\* C13: a document of a benchmark run is matched against exactly the
\* active ground-truth entries whose TC Id is the test-case id of its
\* filename, so every matched or missed entry recorded for it belongs to its
\* test case; the review app matches an upload's claims against the active
\* entries of the upload's test-case id only.
C13_PerDocumentMatching ==
    /\ \A n \in DOMAIN cascade_bench_results :
          LET r == cascade_bench_results[n]
          IN  /\ r.tc_id = extract_tc_id(r.filename)
              /\ r.n_ground_truth = Cardinality(OwnEntries(r.tc_id))
              /\ StageIsOwn(r.detect, r.tc_id)
              /\ StageIsOwn(r.flag, r.tc_id)
    /\ doc_locals # NoLocals =>
          /\ AllOwn(doc_locals.gt_entries, doc_locals.tc_id)
          /\ AllOwn(doc_locals.detect_missed, doc_locals.tc_id)
          /\ AllOwn(doc_locals.flag_missed, doc_locals.tc_id)
          /\ \A n \in DOMAIN doc_locals.detect_matched :
                doc_locals.detect_matched[n].ground_truth \in 0..(Len(doc_locals.gt_entries) - 1)
          /\ \A n \in DOMAIN doc_locals.flag_matched :
                doc_locals.flag_matched[n].ground_truth \in 0..(Len(doc_locals.gt_entries) - 1)
    /\ review_pc = "shown" =>
          /\ review.tc_id = extract_tc_id(review.filename)
          /\ AllOwn(review.ground_truth, review.tc_id)
          /\ \A n \in DOMAIN review.gt_result.matches :
                review.gt_result.matches[n].gt \in 0..(Len(review.ground_truth) - 1)
          /\ review.gt_result # NoGtResult => AllOwn(review.gt_result.missed_gt, review.tc_id)

\* a stored result of a TC01 document that matched one entry and missed
\* none, while the collection holds an active entry of TC02
C13_Witness ==
    /\ \E k \in DOMAIN ground_truth_db :
          ground_truth_db[k].is_active /\ ground_truth_db[k].tc_id = "TC02"
    /\ \E n \in DOMAIN cascade_bench_results :
          /\ cascade_bench_results[n].tc_id = "TC01"
          /\ cascade_bench_results[n].n_ground_truth = 1
          /\ Len(cascade_bench_results[n].flag.matched) = 1
          /\ cascade_bench_results[n].flag.missed = <<>>

\* the review app matched a TC02 upload while the collection holds an
\* active entry of TC01
C13_ReviewCase ==
    /\ review_pc = "shown"
    /\ review.tc_id = "TC02"
    /\ Len(review.gt_result.matches) = 1
    /\ \E k \in DOMAIN ground_truth_db :
          ground_truth_db[k].is_active /\ ground_truth_db[k].tc_id = "TC01"

\* the sum of one count of the final (flag) stage over stored results
RECURSIVE FlagTotal(_, _)
FlagTotal(results, count) ==
    IF results = <<>> THEN 0
    ELSE results[1].flag.metrics[count] + FlagTotal(Tail(results), count)

\* the selected documents the loop has visited
Visited == SubSeq(selected_filenames, 1, bench_idx - 1)

\* the stored results are of visited documents that have PDF data, at most
\* one per document and in the order of the selection
ResultsOfCompleted ==
    /\ all_results = cascade_bench_results
    /\ \E at \in [DOMAIN cascade_bench_results -> DOMAIN Visited] :
          /\ \A m, n \in DOMAIN at : m < n => at[m] < at[n]
          /\ \A n \in DOMAIN at :
                /\ cascade_bench_results[n].filename = Visited[at[n]]
                /\ \E k \in DOMAIN test_documents :
                      /\ test_documents[k].filename = Visited[at[n]]
                      /\ test_documents[k].has_data

\* C14: while a run is under way and once its summary is stored, the
\* overall tp/fp/fn are the sums of the flag-stage tp/fp/fn over the stored
\* per-document results, which belong to visited documents with PDF data
\* only (a skipped document adds no count and no record); the summary's
\* n_documents is the number of stored results and its precision, recall
\* and F1 are computed from the summed counts, 0 for a zero denominator.
C14_RunSummary ==
    /\ bench_pc \in {"running", "done"} =>
          /\ ResultsOfCompleted
          /\ overall.tp = FlagTotal(cascade_bench_results, "true_positives")
          /\ overall.fp = FlagTotal(cascade_bench_results, "false_positives")
          /\ overall.fn = FlagTotal(cascade_bench_results, "false_negatives")
    /\ bench_pc = "done" <=> cascade_bench_runs # <<>>
    /\ \A n \in DOMAIN cascade_bench_runs :
          LET s == cascade_bench_runs[n]
              tp == FlagTotal(cascade_bench_results, "true_positives")
              fp == FlagTotal(cascade_bench_results, "false_positives")
              fn == FlagTotal(cascade_bench_results, "false_negatives")
          IN  /\ s.n_documents = Len(cascade_bench_results)
              /\ s.overall_metrics.true_positives = tp
              /\ s.overall_metrics.false_positives = fp
              /\ s.overall_metrics.false_negatives = fn
              /\ IsRatioOrZero(s.overall_metrics.precision, tp, tp + fp)
              /\ IsRatioOrZero(s.overall_metrics.recall, tp, tp + fn)
              /\ IsRatioOrZero(s.overall_metrics.f1_score, 2 * tp * tp * (tp + fp) * (tp + fn),
                               (tp * (tp + fn) + tp * (tp + fp)) * (tp + fp) * (tp + fn))

\* three documents selected, one without PDF data, one lost to a pipeline
\* exception, one completed with a true positive: a summary of one document
C14_Witness ==
    /\ bench_pc = "done"
    /\ Len(selected_filenames) = 3
    /\ Len(cascade_bench_results) = 1
    /\ cascade_bench_runs[1].n_documents = 1
    /\ cascade_bench_runs[1].overall_metrics.true_positives = 1

\* two documents completed: counts of both are in the summary
C14_TwoDocuments ==
    /\ bench_pc = "done"
    /\ Len(cascade_bench_results) = 2
    /\ cascade_bench_results[1].flag.metrics.true_positives = 1
    /\ cascade_bench_results[2].flag.metrics.false_positives = 1
    /\ cascade_bench_runs[1].overall_metrics.true_positives >= 1
    /\ cascade_bench_runs[1].overall_metrics.false_positives >= 1

(***************************************************************************)
(* Properties of the five audits, under SpecChecker                        *)
(***************************************************************************)
\* the positions of the report's issues of one type
IssuesOfType(t) == {i \in DOMAIN checker_report.issues : checker_report.issues[i].type = t}

PageSeparators == {"-", ","}

\* s[i..j] is a component of the page field s: it runs from the start or a
\* separator to the end or a separator and holds no separator
IsComponent(s, i, j) ==
    /\ i = 1 \/ Ch(s, i - 1) \in PageSeparators
    /\ j = Len(s) \/ Ch(s, j + 1) \in PageSeparators
    /\ \A k \in i..j : Ch(s, k) \notin PageSeparators

\* page p is an integer component of some claim's page field
PageClaimed(p) ==
    \E n \in DOMAIN AuditedClaims :
        \E i \in 1..(Len(AuditedClaims[n].page) + 1), j \in 0..Len(AuditedClaims[n].page) :
            /\ i <= j
            /\ IsComponent(AuditedClaims[n].page, i, j)
            /\ IsDigitStr(Strip(SubSeq(AuditedClaims[n].page, i, j)))
            /\ StrToInt(Strip(SubSeq(AuditedClaims[n].page, i, j))) = p

\* the positions of the MISSING_PAGE issues for page p
MissingPageIssues(p) ==
    {i \in IssuesOfType("MISSING_PAGE") : checker_report.issues[i].page = p}

\* C15: after an audit of a document of N pages the report holds exactly
\* one MISSING_PAGE issue for each page of 1..N that is not an integer
\* component of a claim's page field split on '-' and ',', and none for any
\* other page; a single claim with page "1-3" covers pages 1 and 3 only.
C15_MissingPages ==
    Audited =>
        /\ \A p \in 1..Len(pdf.pages) :
              Cardinality(MissingPageIssues(p)) = IF PageClaimed(p) THEN 0 ELSE 1
        /\ \A i \in IssuesOfType("MISSING_PAGE") :
              checker_report.issues[i].page \in 1..Len(pdf.pages)
        /\ (Len(AuditedClaims) = 1 /\ AuditedClaims[1].page = "1-3" /\ Len(pdf.pages) >= 3) =>
              /\ MissingPageIssues(1) = {}
              /\ MissingPageIssues(2) # {}
              /\ MissingPageIssues(3) = {}

\* three pages and one claim with page "1-3": page 2 is the one missing page
C15_Witness ==
    /\ Audited
    /\ Len(pdf.pages) = 3
    /\ Len(AuditedClaims) = 1
    /\ AuditedClaims[1].page = "1-3"
    /\ Cardinality(IssuesOfType("MISSING_PAGE")) = 1
    /\ MissingPageIssues(2) # {}

\* the numeric tokens of the source, page by page
SourceTokens == UNION {_extract_numbers(pdf.pages[p]) : p \in DOMAIN pdf.pages}

\* the claims' exact_text and support text, joined by blanks in claim order
ClaimAndSupportText ==
    JoinBlank(Flatten([n \in DOMAIN AuditedClaims |->
        IF AuditedClaims[n].support_text = "" THEN <<AuditedClaims[n].exact_text>>
        ELSE <<AuditedClaims[n].exact_text, AuditedClaims[n].support_text>>]))

\* the numeric tokens of the registry
RegistryTokens == _extract_numbers(ClaimAndSupportText)

\* the numbers the report's ORPHAN_NUMBER issues name
OrphansReported ==
    {checker_report.issues[i].number : i \in IssuesOfType("ORPHAN_NUMBER")}

\* C16: after an audit the ORPHAN_NUMBER issues name exactly the numeric
\* tokens of the source that are not among the tokens of the claims'
\* exact_text and support text, one issue per token, and the coverage score
\* is 1 - orphans / source tokens (to three decimals), 1.0 for a source
\* without numeric tokens, and lies in [0, 1].
C16_NumericalCoverage ==
    Audited =>
        \A source \in {SourceTokens} :
            \A orphans \in {source \ RegistryTokens} :
                /\ OrphansReported = orphans
                /\ Cardinality(IssuesOfType("ORPHAN_NUMBER")) = Cardinality(orphans)
                /\ IF source = {} THEN checker_report.coverage_score = 1000
                   ELSE IsRounded(checker_report.coverage_score,
                                  Cardinality(source) - Cardinality(orphans),
                                  Cardinality(source))
                /\ checker_report.coverage_score \in 0..1000

\* a source with two numeric tokens, one of them in the registry
C16_Witness ==
    /\ Audited
    /\ Cardinality(SourceTokens) = 2
    /\ Cardinality(OrphansReported) = 1
    /\ checker_report.coverage_score = 500

\* a source without numeric tokens: coverage 1.0 and no orphan
C16_NoTokens ==
    /\ Audited
    /\ Len(AuditedClaims) > 0
    /\ SourceTokens = {}
    /\ checker_report.coverage_score = 1000
    /\ OrphansReported = {}

AuditedContradictions == RegistryOf(evidence_registry).contradictions

\* the references of the contradictions to claim id cid, as <<contradiction, position>>
ReferencesTo(cid) ==
    {x \in UNION {{<<k, m>> : m \in DOMAIN AuditedContradictions[k].claim_ids} :
                     k \in DOMAIN AuditedContradictions} :
        AuditedContradictions[x[1]].claim_ids[x[2]] = cid}

\* every claim id a claim or a contradiction names
IdsNamed ==
    {AuditedClaims[n].claim_id : n \in DOMAIN AuditedClaims}
    \cup UNION {SeqToSet(AuditedContradictions[k].claim_ids) : k \in DOMAIN AuditedContradictions}

IsClaimId(cid) == \E n \in DOMAIN AuditedClaims : AuditedClaims[n].claim_id = cid

\* the claims with id cid that carry the flag INTERNAL_CONTRADICTION
FlaggedClaims(cid) ==
    {n \in DOMAIN AuditedClaims :
        /\ AuditedClaims[n].claim_id = cid
        /\ "INTERNAL_CONTRADICTION" \in AuditedClaims[n].flags}

\* C17: after an audit the report holds one INVALID_REFERENCE issue for
\* each reference of a contradiction to an id that is no claim's claim_id
\* and none for any other reference, and one ORPHAN_FLAG issue for each
\* claim flagged INTERNAL_CONTRADICTION whose id no contradiction references
\* and none for any other claim.
C17_ContradictionConsistency ==
    Audited =>
        /\ \A cid \in IdsNamed :
              /\ Cardinality({i \in IssuesOfType("INVALID_REFERENCE") :
                                checker_report.issues[i].missing_claim_id = cid})
                    = IF IsClaimId(cid) THEN 0 ELSE Cardinality(ReferencesTo(cid))
              /\ Cardinality({i \in IssuesOfType("ORPHAN_FLAG") :
                                checker_report.issues[i].claim_id = cid})
                    = IF ReferencesTo(cid) = {} THEN Cardinality(FlaggedClaims(cid)) ELSE 0
        /\ \A i \in IssuesOfType("INVALID_REFERENCE") :
              checker_report.issues[i].missing_claim_id \in IdsNamed
        /\ \A i \in IssuesOfType("ORPHAN_FLAG") :
              checker_report.issues[i].claim_id \in IdsNamed

\* a flagged claim C2 and a contradiction that names C9 only: one
\* INVALID_REFERENCE for C9 and one ORPHAN_FLAG for C2
C17_Witness ==
    /\ Audited
    /\ FlaggedClaims("C2") # {}
    /\ ReferencesTo("C9") # {}
    /\ ReferencesTo("C2") = {}
    /\ \E i \in IssuesOfType("INVALID_REFERENCE") : checker_report.issues[i].missing_claim_id = "C9"
    /\ \E i \in IssuesOfType("ORPHAN_FLAG") : checker_report.issues[i].claim_id = "C2"

\* a flagged claim C2 that a contradiction names: neither issue
C17_Consistent ==
    /\ Audited
    /\ FlaggedClaims("C2") # {}
    /\ ReferencesTo("C2") # {}
    /\ IssuesOfType("INVALID_REFERENCE") = {}
    /\ IssuesOfType("ORPHAN_FLAG") = {}

\* the positions of the MISSED_DISCLAIMER issues for a phrase
MissedDisclaimerIssues(phrase) ==
    {i \in IssuesOfType("MISSED_DISCLAIMER") : checker_report.issues[i].phrase = phrase}

\* the phrase, of lowercase words parted by single blanks, continues in the
\* text at position i, letters compared ignoring case and each blank of the
\* phrase standing for a run of whitespace
RECURSIVE PhraseAt(_, _, _)
PhraseAt(phrase, text, i) ==
    IF phrase = "" THEN TRUE
    ELSE IF i > Len(text) THEN FALSE
    ELSE IF Ch(phrase, 1) = " "
    THEN IsSpace(Ch(text, i)) /\ PhraseAt(Tail(phrase), text, SkipSpaces(text, i))
    ELSE LowerCh(Ch(text, i)) = Ch(phrase, 1) /\ PhraseAt(Tail(phrase), text, i + 1)

\* the phrase occurs in the text, case and whitespace runs aside
OccursIn(phrase, text) ==
    \E i \in {k \in 1..Len(text) : LowerCh(Ch(text, k)) = Ch(phrase, 1)} :
        PhraseAt(phrase, text, i)

\* C18: after an audit, for each phrase of STANDARD_DISCLAIMERS the report
\* holds a MISSED_DISCLAIMER issue for it, exactly one, when the phrase
\* occurs, case and whitespace runs aside, in the blank-joined source pages
\* and not in the blank-joined exact_text and support text of the claims,
\* and none otherwise; no MISSED_DISCLAIMER names any other phrase.
C18_DisclaimerCoverage ==
    Audited =>
        \A source \in {JoinBlank(pdf.pages)}, captured \in {ClaimAndSupportText} :
            /\ \A k \in DOMAIN STANDARD_DISCLAIMERS :
                  Cardinality(MissedDisclaimerIssues(STANDARD_DISCLAIMERS[k]))
                     = IF /\ OccursIn(Lower(STANDARD_DISCLAIMERS[k]), source)
                          /\ ~OccursIn(Lower(STANDARD_DISCLAIMERS[k]), captured)
                       THEN 1 ELSE 0
            /\ \A i \in IssuesOfType("MISSED_DISCLAIMER") :
                  checker_report.issues[i].phrase \in SeqToSet(STANDARD_DISCLAIMERS)

\* the source reads "Past  performance is no guarantee" and the registry
\* holds "past performance" only: "no guarantee" is missed, "past
\* performance" is not
C18_Witness ==
    /\ Audited
    /\ OccursIn("past performance", JoinBlank(pdf.pages))
    /\ OccursIn("no guarantee", JoinBlank(pdf.pages))
    /\ MissedDisclaimerIssues("no guarantee") # {}
    /\ MissedDisclaimerIssues("past performance") = {}

\* the registry parsed and the page texts were extracted
ParsedAndExtracted == checker_pc # "ready" /\ evidence_registry.kind # "invalid" /\ pdf.readable

\* the number of issues of type t in a list of issues
CountOfType(issue_list, t) == Cardinality({i \in DOMAIN issue_list : issue_list[i].type = t})

AuditTypes ==
    {"MISSING_PAGE", "ORPHAN_NUMBER", "MISSED_DISCLAIMER", "GARBLED_DISCLAIMER",
     "INVALID_REFERENCE", "ORPHAN_FLAG"}

\* the issues of the four audits that do not depend on an iteration order
OrderedAuditIssues ==
    _check_structural_coverage(RegistryOf(evidence_registry), Len(pdf.pages))
    \o _check_disclaimer_coverage(pdf.pages, RegistryOf(evidence_registry))
    \o _check_negation_integrity(pdf.pages, RegistryOf(evidence_registry))
    \o _check_contradiction_consistency(RegistryOf(evidence_registry))

RECURSIVE SumOver(_, _)
SumOver(f, S) ==
    IF S = {} THEN 0
    ELSE LET x == CHOOSE y \in S : TRUE IN f[x] + SumOver(f, S \ {x})

\* the report holds the issues of all five audits, and its summary counts them
AllAuditsAccumulated ==
    /\ \A all \in {OrderedAuditIssues} :
          /\ \A t \in AuditTypes \ {"ORPHAN_NUMBER"} :
                Cardinality(IssuesOfType(t)) = CountOfType(all, t)
          /\ \A n \in DOMAIN all : \E i \in DOMAIN checker_report.issues :
                checker_report.issues[i] = all[n]
          /\ Len(checker_report.issues) = Len(all) + Cardinality(SourceTokens \ RegistryTokens)
    /\ OrphansReported = SourceTokens \ RegistryTokens
    /\ IssueTypes \subseteq AuditTypes
    /\ DOMAIN checker_report.issue_summary = IssueTypes
    /\ \A t \in IssueTypes : checker_report.issue_summary[t] = Cardinality(IssuesOfType(t))
    /\ SumOver(checker_report.issue_summary, IssueTypes) = Len(checker_report.issues)

\* C19, as stated: whenever the registry parsed and the document text was
\* extracted, validate_registry has returned a report that holds every issue
\* of each of the five audits, with issue_summary counting the issues per
\* type and summing to the number of issues.
C19_AsStated == ParsedAndExtracted => (checker_pc = "returned" /\ AllAuditsAccumulated)

\* when validate_registry returns from the audits, the report holds every
\* issue of each of the five audits and the summary counts them
C19_AccumulatedWhenReturned == Audited => AllAuditsAccumulated

\* a returned report with issues of three audits at once
C19_SeveralAudits ==
    /\ Audited
    /\ Cardinality(IssueTypes) >= 3
    /\ SumOver(checker_report.issue_summary, IssueTypes) = Len(checker_report.issues)

(***************************************************************************)
(* C20.  Error reports.                                                    *)
(***************************************************************************)
\* the report has exactly one issue, of type t, coverage_score 0.0 and
\* passed false, and nothing else
IsErrorReport(report, t) ==
    /\ DOMAIN report = {"coverage_score", "issues", "passed"}
    /\ Len(report.issues) = 1
    /\ report.issues[1].type = t
    /\ report.coverage_score = 0
    /\ report.passed = FALSE

ReturnedErrorReport(t) ==
    checker_pc = "returned" /\ IsErrorReport(checker_report, t)

\* C20, as stated: once validate_registry has run, a registry string that is
\* not valid JSON gives a returned report with exactly one PARSE_ERROR issue,
\* coverage_score 0.0 and passed false; a registry string that parses, with a
\* document whose page-text extraction raises, gives a returned report with
\* exactly one PDF_EXTRACT_ERROR issue, coverage_score 0.0 and passed false.
C20_AsStated ==
    checker_pc # "ready" =>
        /\ evidence_registry.kind = "invalid" => ReturnedErrorReport("PARSE_ERROR")
        /\ (evidence_registry.kind # "invalid" /\ ~pdf.readable) =>
                ReturnedErrorReport("PDF_EXTRACT_ERROR")

\* C20, where the parsed registry is a JSON object: the two error reports
\* are returned as described.
C20_ObjectRegistries ==
    checker_pc # "ready" =>
        /\ evidence_registry.kind = "invalid" => ReturnedErrorReport("PARSE_ERROR")
        /\ (evidence_registry.kind = "object" /\ ~pdf.readable) =>
                ReturnedErrorReport("PDF_EXTRACT_ERROR")

C20_ParseErrorReturned ==
    /\ evidence_registry.kind = "invalid"
    /\ pdf.readable
    /\ ReturnedErrorReport("PARSE_ERROR")

C20_PdfErrorReturned ==
    /\ evidence_registry.kind = "object"
    /\ ~pdf.readable
    /\ ReturnedErrorReport("PDF_EXTRACT_ERROR")

(***************************************************************************)
(* C30.  What the negation audit takes as the registry's capture.          *)
(***************************************************************************)
RequiredWords == UNION {Required(k) : k \in Checks}

\* the word occurs, case aside, in the exact_text of a claim of any type or
\* in a claim's support text
InAnyClaimText(word) ==
    \E i \in DOMAIN AuditedClaims :
        \/ Contains(word, _normalize(AuditedClaims[i].exact_text))
        \/ Contains(word, _normalize(AuditedClaims[i].support_text))

\* C30, as stated: after an audit, no GARBLED_DISCLAIMER issue names a
\* required negation word that occurs in the exact_text of some claim, of
\* whatever claim_type, or in some claim's support text.
C30_AsStated ==
    Audited => \A word \in RequiredWords : InAnyClaimText(word) => ~GarbledNaming(word)

\* C30, as the code has it: after an audit, no GARBLED_DISCLAIMER issue
\* names a required negation word that occurs in the exact_text of a claim
\* typed "disclosures" or in the support text of a claim of any type.
C30_CapturedWordIsNotReported ==
    Audited => \A word \in RequiredWords : InCapture(word) => ~GarbledNaming(word)

\* the source holds "has NOT approved or disapproved"; the claim is typed
\* "performance" and holds "not" only in its support text: nothing names "not"
C30_Witness ==
    /\ Audited
    /\ FragmentInSource(2, SourceText)
    /\ InSource("not")
    /\ \E i \in DOMAIN AuditedClaims :
          /\ AuditedClaims[i].claim_type # "disclosures"
          /\ ~Contains("not", _normalize(AuditedClaims[i].exact_text))
          /\ Contains("not", _normalize(AuditedClaims[i].support_text))
    /\ ~GarbledNaming("not")

(***************************************************************************)
(* C28.  Greedy maximality.                                                *)
(***************************************************************************)
\* the left keys of the accepted pairs: claim ids or finding indices
MatchedLeft == {AcceptedPairs[n].left : n \in DOMAIN AcceptedPairs}

\* no candidate scores higher than c
HighestScoring(c) ==
    \A d \in Candidates : FracGeq(Score(c[1], c[2]), Score(d[1], d[2]))

\* C28: after a call of any of the three matchers (a) no candidate pair
\* whose score reaches the threshold has both its left item, taken by its
\* key, and its ground-truth entry outside the accepted pairs; (b) when a
\* highest-scoring candidate reaches the threshold, a highest-scoring
\* candidate is accepted, and it is the first accepted pair; (c) the
\* accepted pairs are listed in non-increasing order of similarity.
C28_GreedyMaximality ==
    Matched =>
        /\ \A c \in Candidates :
              Reaches(c[1], c[2]) =>
                  LeftKey(c[1]) \in MatchedLeft \/ (c[2] - 1) \in MatchedGt
        /\ \A c \in Candidates :
              (HighestScoring(c) /\ Reaches(c[1], c[2])) =>
                  /\ AcceptedPairs # <<>>
                  /\ AcceptedPairs[1].similarity = Round3(Score(c[1], c[2]))
                  /\ \E d \in Candidates :
                        /\ HighestScoring(d)
                        /\ AcceptedPairs[1].left = LeftKey(d[1])
                        /\ AcceptedPairs[1].gt = d[2] - 1
        /\ \A m, n \in DOMAIN AcceptedPairs :
              m < n => AcceptedPairs[m].similarity >= AcceptedPairs[n].similarity

\* two left items and two ground-truth entries: the best pair is accepted
\* first, a pair that reaches the threshold is left out because its ground
\* truth is taken, and a second pair of lower score is accepted after it
C28_Witness ==
    /\ Matched
    /\ Len(left_items) = 2 /\ Len(ground_truth) = 2
    /\ Len(AcceptedPairs) = 2
    /\ AcceptedPairs[1].similarity > AcceptedPairs[2].similarity
    /\ \E c \in Candidates : Reaches(c[1], c[2]) /\ ~Accepted(c)

\* the left item at position i is in an accepted pair: for claims, the
\* accepted pair of its claim_id was scored on its own text
ItemAccepted(i) == \E j \in DOMAIN ground_truth : Accepted(<<i, j>>)

\* C28, as stated, the left item taken as the item of the input list: after
\* a call of a matcher no candidate pair whose score reaches the threshold
\* has both its left item and its ground-truth entry in no accepted pair.
C28_AsStated ==
    Matched =>
        \A c \in Candidates :
            Reaches(c[1], c[2]) => ItemAccepted(c[1]) \/ (c[2] - 1) \in MatchedGt

(***************************************************************************)
(* Properties of the single-function runs, under SpecFunctions             *)
(***************************************************************************)
SimilarityCalled == sim_args # <<>> /\ sim_value # NoSimilarity

\* lowercased and trimmed, as sentence_similarity compares its arguments
Normalized(s) == Strip(Lower(s))

InUnitInterval(x) == x.den > 0 /\ 0 <= x.num /\ x.num <= x.den

IsOne(x) == x.den > 0 /\ x.num = x.den

\* C25, as stated: the similarity of any two strings is in [0, 1]; it is
\* the same in both argument orders for non-empty strings; it is 1.0 when
\* the two strings are equal after lowercasing and trimming, two empty
\* strings included.
C25_AsStated ==
    SimilarityCalled =>
        /\ InUnitInterval(sim_value.ab)
        /\ (sim_args[1] # "" /\ sim_args[2] # "") => FracEq(sim_value.ab, sim_value.ba)
        /\ Normalized(sim_args[1]) = Normalized(sim_args[2]) => IsOne(sim_value.ab)

\* C25 without the symmetry: the similarity is in [0, 1] in both argument
\* orders and is 1.0 when the two strings are equal after lowercasing and
\* trimming, two empty strings included.
C25_RangeAndIdentity ==
    SimilarityCalled =>
        /\ InUnitInterval(sim_value.ab)
        /\ InUnitInterval(sim_value.ba)
        /\ Normalized(sim_args[1]) = Normalized(sim_args[2])
              => IsOne(sim_value.ab) /\ IsOne(sim_value.ba)

C25_EqualUpToCase ==
    /\ SimilarityCalled
    /\ sim_args[1] # sim_args[2]
    /\ Normalized(sim_args[1]) = Normalized(sim_args[2])
    /\ Normalized(sim_args[1]) # ""
    /\ IsOne(sim_value.ab)

C25_Asymmetric ==
    /\ SimilarityCalled
    /\ sim_args = <<"tide", "diet">>
    /\ sim_value.ab = [num |-> 2, den |-> 8]
    /\ sim_value.ba = [num |-> 4, den |-> 8]

\* the report names a critical issue
HasCritical == \E i \in DOMAIN checker_report.issues :
                  checker_report.issues[i].type \in critical_types

ReportBuilt == checker_pc = "returned" /\ numerical_audit.source_numbers # {}

\* the audit's coverage, exact: the source numbers that are no orphans over
\* the source numbers
AuditCovered ==
    Cardinality(numerical_audit.source_numbers) - Cardinality(numerical_audit.orphan_numbers)

AuditTotal == Cardinality(numerical_audit.source_numbers)

\* C29, as stated: in a report of validate_registry, passed is true exactly
\* when the report's coverage_score (in thousandths: 700 is 0.7) is at
\* least 0.70 and the report's issues hold no critical type.
C29_AsStated ==
    ReportBuilt =>
        (checker_report.passed <=> (checker_report.coverage_score >= 700 /\ ~HasCritical))

\* C29 on the coverage before rounding: passed is true exactly when the
\* uncovered ratio is at most 0.3 and the issues hold no critical type, and
\* the report shows that coverage rounded to three decimals; a report that
\* passes shows at least 0.7.
C29_PassedOnExactCoverage ==
    ReportBuilt =>
        /\ checker_report.passed <=> (10 * AuditCovered >= 7 * AuditTotal /\ ~HasCritical)
        /\ IsRounded(checker_report.coverage_score, AuditCovered, AuditTotal)
        /\ checker_report.passed => checker_report.coverage_score >= 700

\* 203 source numbers of which 61 are orphans: the report shows 0.7, has no
\* critical issue, and has not passed
C29_ShowsSeventyAndFails ==
    /\ ReportBuilt
    /\ AuditTotal = 203 /\ AuditCovered = 142
    /\ checker_report.coverage_score = 700
    /\ ~HasCritical
    /\ ~checker_report.passed
    /\ Len(checker_report.issues) = 61

(***************************************************************************)
(* Properties of the graph runs, under SpecPipeline                        *)
(***************************************************************************)
ExtractionPhases ==
    {"phase0_preliminary", "phase1_evidence", "phase2_detect", "phase3_validate",
     "sec_misleading_detect", "sec_misleading_ask", "sec_misleading_flag"}

\* the artifact texts of the state, the unwritten ones aside
WrittenArtifacts ==
    {preliminary_extraction, evidence_registry.text, theme1_candidates, theme1_findings,
     SEC_misleading_detect_artifact, SEC_misleading_ask_artifact,
     SEC_misleading_artifact} \ {""}

\* C23: whatever the model returns, no extraction phase (phase 0 to 3,
\* legacy detect, ask, flag) ends the run by raising, and every artifact
\* written is a text its consumer can parse.
C23_AsStated ==
    /\ raised_node \notin ExtractionPhases
    /\ \A artifact \in WrittenArtifacts : json_loads(artifact).kind # "invalid"

\* C23: a phase 2 response that is valid JSON and no object is kept as
\* theme1_candidates, and phase 3 raises on it.
C23_ListResponseIsFatal ==
    /\ theme1_candidates = "[]"
    /\ raised_node = "phase3_validate"
    /\ theme1_findings = ""

\* C23: a response with braces that hold no JSON is kept as the artifact.
C23_BracedTextIsKept == theme1_candidates = "{oops}" /\ active = {END}

\* C23: an artifact is a text json.loads takes, a text that starts with the
\* first brace and ends with the last brace of the response, or the
\* default of its type.
C23_ArtifactIsTextOrBracesOrDefault ==
    \A artifact \in WrittenArtifacts :
        \/ json_loads(artifact).kind # "invalid"
        \/ SubSeq(artifact, 1, 1) = "{" /\ SubSeq(artifact, Len(artifact), Len(artifact)) = "}"

\* a run of the evidence graph
EvidenceRun == \E i \in DOMAIN EvidenceNodes : EvidenceNodes[i] \in SeqToSet(executed) \cup active

\* the node that follows the nodes executed in the order of the graph
NextInOrder(nodes) == IF Len(executed) < Len(nodes) THEN nodes[Len(executed) + 1] ELSE END

\* C22: in every run of the evidence graph the nodes executed so far are the
\* first nodes of the order phase0_preliminary, phase1_evidence,
\* registry_checker, phase2_detect, phase3_validate, each once, and exactly
\* one node is scheduled, the next of that order, until the run is at END:
\* no run stops before END.
C22_AsStated ==
    EvidenceRun =>
        /\ Len(executed) <= Len(EvidenceNodes)
        /\ executed = SubSeq(EvidenceNodes, 1, Len(executed))
        /\ active = {NextInOrder(EvidenceNodes)}

\* C22: the nodes run in the order of the graph, each once and one at a
\* time, each model call reading the artifacts written before it; a run
\* stops before END exactly when a node raised.
C22_InOrderOneAtATime ==
    EvidenceRun =>
        /\ Len(executed) <= Len(EvidenceNodes)
        /\ executed = SubSeq(EvidenceNodes, 1, Len(executed))
        /\ active = IF raised_node = "" THEN {NextInOrder(EvidenceNodes)} ELSE {}
        /\ raised_node # "" => raised_node = executed[Len(executed)]
        /\ \A i \in DOMAIN model_calls :
            model_calls[i].node = "phase1_evidence" =>
                model_calls[i].input.texts = <<pdf_path, preliminary_extraction>>

\* C22: a run of the evidence graph that ended in phase 3 by an exception
C22_RunEndsBeforeEnd ==
    /\ executed = EvidenceNodes
    /\ raised_node = "phase3_validate"
    /\ active = {}

\* the step in which `node` runs and returns
Returning(node) == executed' = Append(executed, node) /\ raised_node' = ""

\* the step calls the model
Calling == Len(model_calls') = Len(model_calls) + 1

\* the registry phases 2 and 3 read: the object under "registry" or the
\* object itself, nothing when the text is no JSON object
ReadableRegistry ==
    IF evidence_registry.kind # "object" THEN EmptyRegistry
    ELSE IF evidence_registry.has_registry_key THEN evidence_registry.registry
    ELSE [claims |-> evidence_registry.claims,
          contradictions |-> evidence_registry.contradictions]

\* C21: whatever report the checker returns (passed or not, with any issues,
\* an error report), phase2_detect is scheduled next and phase3_validate
\* after it, and neither reads the report: phase 2 calls the model exactly
\* when the registry holds a claim relevant to theme 1, phase 3 exactly when
\* the candidates are a non-empty list, and both leave checker_report as it
\* is.
C21_CheckerIsAdvisory ==
    [][/\ Returning("registry_checker") => active' = {"phase2_detect"}
       /\ Returning("phase2_detect") =>
            /\ active' = {"phase3_validate"}
            /\ checker_report' = checker_report
            /\ Calling <=> \E c \in SeqToSet(ReadableRegistry.claims) : Theme1Relevant(c)
       /\ Returning("phase3_validate") =>
            /\ active' = {END}
            /\ checker_report' = checker_report
            /\ Calling <=> /\ "candidates" \in DOMAIN json_loads(theme1_candidates)
                           /\ json_loads(theme1_candidates).candidates # <<>>]_vars

\* C21: the checker returned an error report, and phase 2 and phase 3 ran
\* after it with their model calls and wrote their artifacts.
C21_Witness ==
    /\ checker_report = PdfErrorReport
    /\ executed = EvidenceNodes
    /\ active = {END}
    /\ theme1_candidates = candidates_json
    /\ theme1_findings = findings_json
    /\ {model_calls[i].node : i \in DOMAIN model_calls} =
            {"phase0_preliminary", "phase1_evidence", "phase2_detect", "phase3_validate"}

\* C21: the same after a report that passed, and after one of the audits
\* that did not pass
C21_AfterPassedReport ==
    checker_report.passed /\ active = {END} /\ theme1_findings = findings_json

C21_AfterFailedAudit ==
    /\ ~checker_report.passed
    /\ "total_pages" \in DOMAIN checker_report
    /\ active = {END}
    /\ theme1_findings = findings_json

\* the registry texts with each one's counterpart: R for {"registry": R} and
\* {"registry": R} for R
IsRegistryText(text) ==
    \E i \in DOMAIN RegistryJson : text \in {RegistryJson[i].text, WrapJson(RegistryJson[i].text)}

Counterpart(text) ==
    IF \E i \in DOMAIN RegistryJson : text = RegistryJson[i].text THEN WrapJson(text)
    ELSE (CHOOSE r \in SeqToSet(RegistryJson) : WrapJson(r.text) = text).text

\* what the last call of `node` was given, NoPrompt if it made no call
LastInput(node) ==
    LET calls == {i \in DOMAIN model_calls : model_calls[i].node = node}
    IN  IF calls = {} THEN NoPrompt
        ELSE model_calls[CHOOSE i \in calls : \A j \in calls : i >= j].input

\* the run's node did what `outcome` says: raised, or returned that artifact
\* after that model call or without one
DidAs(node, outcome, artifact) ==
    /\ outcome.raised <=> raised_node = node
    /\ ~outcome.raised =>
        /\ outcome.update[CHOOSE k \in DOMAIN outcome.update : k # "token_usage"] = artifact
        /\ outcome.input = LastInput(node)

\* C24: for a registry object R the checker, phase 2 and phase 3 do on the
\* artifact R what they do on {"registry": R}, and the other way round: in
\* a run on the one, the report, the candidates, the findings, the model
\* calls and the exceptions are those the node gives for the other.
C24_WrapperTolerance ==
    IsRegistryText(evidence_registry.text) =>
        \E other \in {Loaded(Counterpart(evidence_registry.text))} :
            /\ "registry_checker" \in SeqToSet(executed) =>
                \E outcome \in RegistryCheckerOutcomes(pdf, other) :
                    /\ outcome.raised <=> raised_node = "registry_checker"
                    /\ ~outcome.raised => outcome.update.checker_report = checker_report
            /\ "phase2_detect" \in SeqToSet(executed) =>
                \E response \in Responses(Phase2Texts) :
                    DidAs("phase2_detect", phase2_theme1_detect(other, {}, response),
                          theme1_candidates)
            /\ "phase3_validate" \in SeqToSet(executed) =>
                \E response \in Responses(Phase3Texts) :
                    DidAs("phase3_validate",
                          phase3_theme1_validate(theme1_candidates, other, {}, response),
                          theme1_findings)

\* C24: a run on a wrapped registry in which the checker audited the claim of
\* the registry and phases 2 and 3 called the model on it
C24_Witness ==
    /\ evidence_registry.has_registry_key
    /\ evidence_registry.registry.claims = <<RelevantClaim>>
    /\ checker_report.passed
    /\ checker_report.total_claims = 1
    /\ LastInput("phase2_detect").claims = <<RelevantClaim>>
    /\ LastInput("phase3_validate").candidates # <<>>
    /\ active = {END}

\* the step in which `node` runs
Running(node) == executed' = Append(executed, node)

\* evidence_registry is empty, is no JSON, or holds no claim of type
\* misleading_exaggerated and none with a flag of THEME1_RELEVANT_FLAGS
NothingForTheme1 ==
    \/ evidence_registry.text = ""
    \/ evidence_registry.kind = "invalid"
    \/ \A c \in SeqToSet(ReadableRegistry.claims) :
            /\ c.claim_type # "misleading_exaggerated"
            /\ c.flags \cap THEME1_RELEVANT_FLAGS = {}

\* C26: on a registry that is empty, unparseable or without a claim relevant
\* to theme 1, phase 2 writes {"candidates": []} without a model call and
\* without raising; on those candidates phase 3 writes {"diagnostics": [],
\* "sections": []} without a model call; in the legacy graph ask writes
\* {"results": []} on an empty detect artifact and flag {"sections": []} on
\* those results, both without a model call.
C26_EmptyDefaultsPropagate ==
    [][/\ Running("phase2_detect") /\ NothingForTheme1 =>
            /\ theme1_candidates' = default_candidates
            /\ model_calls' = model_calls
            /\ active' = {"phase3_validate"}
       /\ Running("phase3_validate") /\ theme1_candidates = default_candidates =>
            /\ theme1_findings' = default_findings
            /\ model_calls' = model_calls
            /\ active' = {END}
       /\ Running("sec_misleading_ask")
          /\ SEC_misleading_detect_artifact = default_candidates =>
            /\ SEC_misleading_ask_artifact' = default_results
            /\ model_calls' = model_calls
            /\ active' = {"sec_misleading_flag"}
       /\ Running("sec_misleading_flag") /\ SEC_misleading_ask_artifact = default_results =>
            /\ SEC_misleading_artifact' = default_sections
            /\ model_calls' = model_calls
            /\ active' = {END}]_vars

\* C26: a run on a registry whose only claim is not relevant to theme 1:
\* the checker audited it, and phases 2 and 3 wrote their defaults without a
\* model call.
C26_Witness ==
    /\ RegistryOf(evidence_registry).claims = <<QuietClaim>>
    /\ "total_claims" \in DOMAIN checker_report
    /\ executed = EvidenceNodes
    /\ active = {END}
    /\ theme1_candidates = default_candidates
    /\ theme1_findings = default_findings
    /\ {model_calls[i].node : i \in DOMAIN model_calls} =
            {"phase0_preliminary", "phase1_evidence"}

\* C26: the same on a registry that is no JSON, and in the legacy graph
C26_UnparseableRegistry ==
    /\ evidence_registry.text = "{oops}"
    /\ active = {END}
    /\ theme1_candidates = default_candidates
    /\ theme1_findings = default_findings
    /\ Len(model_calls) = 2

C26_LegacyDefaults ==
    /\ executed = LegacyNodes
    /\ active = {END}
    /\ SEC_misleading_detect_artifact = default_candidates
    /\ SEC_misleading_ask_artifact = default_results
    /\ SEC_misleading_artifact = default_sections
    /\ Len(model_calls) = 1

\* the artifact fields of PipelineState with the node that writes each
ArtifactFields ==
    [phase0_preliminary |-> preliminary_extraction,
     phase1_evidence |-> evidence_registry.text,
     phase2_detect |-> theme1_candidates,
     phase3_validate |-> theme1_findings]

ArtifactFieldsAfter ==
    [phase0_preliminary |-> preliminary_extraction',
     phase1_evidence |-> evidence_registry.text',
     phase2_detect |-> theme1_candidates',
     phase3_validate |-> theme1_findings']

\* C27: in a run of the evidence graph a step of a model phase changes at
\* most its own artifact field and token_usage, a step of registry_checker
\* at most checker_report; an empty update leaves a field under _replace as
\* it is and a non-empty one replaces it; pdf_path never changes, and an
\* artifact field or the report, once written, keeps its value.
C27_WriteOnce ==
    [][/\ pdf_path' = pdf_path
       /\ \A node \in DOMAIN ArtifactFields :
            /\ ~Running(node) => ArtifactFieldsAfter[node] = ArtifactFields[node]
            /\ ArtifactFields[node] # "" => ArtifactFieldsAfter[node] = ArtifactFields[node]
            /\ _replace(ArtifactFieldsAfter[node], "") = ArtifactFieldsAfter[node]
            /\ ArtifactFieldsAfter[node] # "" =>
                    _replace(ArtifactFields[node], ArtifactFieldsAfter[node])
                        = ArtifactFieldsAfter[node]
       /\ ~Running("registry_checker") => checker_report' = checker_report
       /\ Running("registry_checker") => token_usage' = token_usage
       /\ checker_report # NoReport => checker_report' = checker_report]_vars

\* C27: a run in which every node wrote its field, at END
C27_Witness ==
    /\ active = {END}
    /\ pdf_path = "fund.pdf"
    /\ \A node \in DOMAIN ArtifactFields : ArtifactFields[node] # ""
    /\ checker_report # NoReport
    /\ token_usage = {"phase0_input", "phase0_output", "phase1_input", "phase1_output",
                      "phase2_input", "phase2_output", "phase3_input", "phase3_output"}

====
